---- MODULE Spec2Model ----
(***************************************************************************)
(* A model of the simplelang PL/0 compiler: lexer, parser, analyser, code  *)
(* generator, and the MIPS machine that runs the emitted assembly.         *)
(*                                                                         *)
(* Bytes are one-character strings, texts are sequences of bytes.          *)
(***************************************************************************)
EXTENDS Integers, Sequences, FiniteSets, TLC

VARIABLES
    src,     \* the input text handed to the lexer
    ins,     \* how src was built: [base, at, cmt] (a comment put into base at offset at)
    lx,      \* the Lexer: [r, last, peek, ln] (reader offset, reader's lastByte, peek, ln)
    out,     \* what the calls of Scan returned so far: <<[tok, start], ...>>
    mode,    \* which run this is: "lex", "parse" or "pipe"
    parser,  \* the Parser: [lex, peek, err, calls] (calls: how often it called Scan)
    ast,     \* the node the last stage returned (NilNode for nil)
    pc,      \* how far main has come: "start", "new", "parsed", "generated", ...
    anl,     \* what Analyse returned: [p, err, fault, n]
    gen,     \* the CodeGenerator: [buf, count]
    cpu      \* the machine that runs the generated text

vars == <<src, ins, lx, out, mode, parser, ast, pc, anl, gen, cpu>>

(***************************************************************************)
(* token: tags and the two shared sentinels                                *)
(***************************************************************************)
NoLex == <<>>

\* token.New(ln)
NewToken(ln) == [Tag |-> "Zero", Val |-> 0, Ln |-> ln, Lex |-> NoLex, Err |-> "nil"]

EOF == [Tag |-> "Zero", Val |-> 0, Ln |-> 0, Lex |-> NoLex, Err |-> "EOF"]

UnexpectedChar == [Tag |-> "Zero", Val |-> 0, Ln |-> 0, Lex |-> NoLex, Err |-> "Unexpected character"]

(***************************************************************************)
(* bufio.Reader over the input: r bytes consumed, last = lastByte          *)
(***************************************************************************)
NoByte == "nobyte"
NulByte == "nul"

NewLexer == [r |-> 0, last |-> NoByte, peek |-> NulByte, ln |-> 0]

\* bufio.Reader.ReadByte: a failed read leaves lastByte as it was
ReadByte(s, l) ==
    IF l.r < Len(s)
    THEN [l |-> [l EXCEPT !.r = l.r + 1, !.last = s[l.r + 1]], c |-> s[l.r + 1], err |-> FALSE]
    ELSE [l |-> l, c |-> NulByte, err |-> TRUE]

\* bufio.Reader.UnreadByte, called through Lexer.unreadChar (its error is dropped)
unreadChar(l) ==
    IF l.last = NoByte THEN l ELSE [l EXCEPT !.r = l.r - 1, !.last = NoByte]

Letters ==
    {"A","B","C","D","E","F","G","H","I","J","K","L","M","N","O","P","Q","R","S","T","U","V","W","X","Y","Z",
     "a","b","c","d","e","f","g","h","i","j","k","l","m","n","o","p","q","r","s","t","u","v","w","x","y","z"}

DigitChars == <<"0","1","2","3","4","5","6","7","8","9">>

isAlpha(c) == c \in Letters

isDigit(c) == \E i \in 1..10 : DigitChars[i] = c

convertCharDigitToInt(c) ==
    IF isDigit(c) THEN (CHOOSE i \in 1..10 : DigitChars[i] = c) - 1 ELSE -1

\* Lexer.loadKeywords: the reserved words and their tags
Keywords ==
    { [lex |-> <<"C","O","N","S","T">>, tag |-> "Const"],
      [lex |-> <<"V","A","R">>, tag |-> "Var"],
      [lex |-> <<"P","R","O","C","E","D","U","R","E">>, tag |-> "Procedure"],
      [lex |-> <<"C","A","L","L">>, tag |-> "Call"],
      [lex |-> <<"B","E","G","I","N">>, tag |-> "Begin"],
      [lex |-> <<"E","N","D">>, tag |-> "End"],
      [lex |-> <<"I","F">>, tag |-> "If"],
      [lex |-> <<"T","H","E","N">>, tag |-> "Then"],
      [lex |-> <<"W","H","I","L","E">>, tag |-> "While"],
      [lex |-> <<"D","O">>, tag |-> "Do"],
      [lex |-> <<"O","D","D">>, tag |-> "Odd"] }

res(lexeme) ==
    IF \E k \in Keywords : k.lex = lexeme
    THEN (CHOOSE k \in Keywords : k.lex = lexeme).tag
    ELSE "Zero"

\* Lexer.readChar
readChar(s, l) ==
    LET on(rb) ==
            IF rb.err THEN [l |-> l, err |-> TRUE]
            ELSE [l |-> [rb.l EXCEPT !.peek = rb.c], err |-> FALSE]
    IN  on(ReadByte(s, l))

\* Lexer.readCharAndWhitespace
RECURSIVE readCharAndWhitespace(_, _)
readCharAndWhitespace(s, l) ==
    LET on(rb) ==
            IF rb.err THEN [l |-> l, err |-> TRUE]
            ELSE IF rb.c = "\n" THEN readCharAndWhitespace(s, [rb.l EXCEPT !.ln = l.ln + 1])
            ELSE IF rb.c = " " \/ rb.c = "\t" THEN readCharAndWhitespace(s, rb.l)
            ELSE [l |-> [rb.l EXCEPT !.peek = rb.c], err |-> FALSE]
    IN  on(ReadByte(s, l))

\* Lexer.readCharAndMatch
readCharAndMatch(s, l, c) ==
    LET on(rc) ==
            IF rc.err THEN [l |-> rc.l, m |-> FALSE, err |-> TRUE]
            ELSE IF rc.l.peek # c THEN [l |-> rc.l, m |-> FALSE, err |-> FALSE]
            ELSE [l |-> [rc.l EXCEPT !.peek = " "], m |-> TRUE, err |-> FALSE]
    IN  on(readChar(s, l))

\* the block-comment loop of Lexer.scanComments
RECURSIVE blockCommentLoop(_, _)
blockCommentLoop(s, l) ==
    LET slash(m2) ==
            IF m2.err THEN [l |-> m2.l, err |-> TRUE]
            ELSE IF m2.m THEN readCharAndWhitespace(s, m2.l)
            ELSE blockCommentLoop(s, unreadChar(m2.l))
        star(m1) ==
            IF m1.err THEN [l |-> m1.l, err |-> TRUE]
            ELSE IF m1.m THEN slash(readCharAndMatch(s, m1.l, "/"))
            ELSE blockCommentLoop(s, m1.l)
    IN  star(readCharAndMatch(s, l, "*"))

\* the line-comment loop of Lexer.scanComments
RECURSIVE lineCommentLoop(_, _)
lineCommentLoop(s, l) ==
    LET on(rc) ==
            IF rc.err THEN [l |-> rc.l, err |-> TRUE]
            ELSE IF rc.l.peek = "\n" THEN readCharAndWhitespace(s, rc.l)
            ELSE lineCommentLoop(s, rc.l)
    IN  on(readChar(s, l))

\* Lexer.scanComments
scanComments(s, l) ==
    LET slash(m2) ==
            IF m2.err THEN [l |-> m2.l, err |-> TRUE]
            ELSE IF m2.m THEN lineCommentLoop(s, m2.l)
            ELSE [l |-> [unreadChar(m2.l) EXCEPT !.peek = "/"], err |-> FALSE]
        star(m1) ==
            IF m1.err THEN [l |-> m1.l, err |-> FALSE]
            ELSE IF m1.m THEN blockCommentLoop(s, m1.l)
            ELSE slash(readCharAndMatch(s, unreadChar(m1.l), "/"))
    IN  IF l.peek # "/" THEN [l |-> l, err |-> FALSE]
        ELSE star(readCharAndMatch(s, l, "*"))

\* the identifier loop of Lexer.Scan
RECURSIVE identLoop(_, _, _)
identLoop(s, l, strBuf) ==
    LET on(buf, rc) ==
            IF rc.err THEN [l |-> rc.l, lexeme |-> buf]
            ELSE IF ~(isAlpha(rc.l.peek) \/ isDigit(rc.l.peek))
            THEN [l |-> unreadChar(rc.l), lexeme |-> buf]
            ELSE identLoop(s, rc.l, buf)
    IN  on(Append(strBuf, l.peek), readChar(s, l))

\* the integer loop of Lexer.Scan
RECURSIVE intLoop(_, _, _)
intLoop(s, l, v0) ==
    LET on(v, rc) ==
            IF rc.err THEN [l |-> rc.l, v |-> v]
            ELSE IF ~isDigit(rc.l.peek) THEN [l |-> unreadChar(rc.l), v |-> v]
            ELSE intLoop(s, rc.l, v)
    IN  on(10 * v0 + convertCharDigitToInt(l.peek), readChar(s, l))

SingleCharTags ==
    { <<".", "Period">>, <<",", "Comma">>, <<";", "Semicolon">>, <<"=", "Equals">>,
      <<"#", "NotEquals">>, <<"*", "Times">>, <<"/", "Divide">>, <<"+", "Plus">>,
      <<"-", "Minus">>, <<"{", "LeftCurlyBrace">>, <<"}", "RightCurlyBrace">>,
      <<"(", "LeftParen">>, <<")", "RightParen">>, <<"!", "Exclamation">> }

\* Lexer.Scan from the identifier test on (the code after the chain of one-byte cases)
scanWord(s, l, tok, start) ==
    LET ident(id, tag) ==
            [l |-> id.l, start |-> start,
             tok |-> [tok EXCEPT !.Tag = IF tag # "Zero" THEN tag ELSE "Identifier",
                                 !.Lex = IF tag # "Zero" THEN NoLex ELSE id.lexeme]]
        int(n) ==
            [l |-> n.l, start |-> start, tok |-> [tok EXCEPT !.Tag = "Integer", !.Val = n.v]]
        word(id) == ident(id, res(id.lexeme))
    IN  IF isAlpha(l.peek) THEN word(identLoop(s, l, <<>>))
        ELSE IF isDigit(l.peek) THEN int(intLoop(s, l, 0))
        ELSE [l |-> l, start |-> start, tok |-> UnexpectedChar]

\* Lexer.Scan: the lexer after the call, the token returned, and the offset in the
\* input of the byte that was peek when the token was created
Scan(s, l) ==
    LET relational(l1, tok, m) ==
            IF m.m
            THEN [l |-> m.l, start |-> l1.r,
                  tok |-> [tok EXCEPT !.Tag =
                     IF l1.peek = "<" THEN "LessThanEqualTo" ELSE "GreaterThanEqualTo"]]
            ELSE [l |-> unreadChar(m.l), start |-> l1.r,
                  tok |-> [tok EXCEPT !.Tag =
                     IF l1.peek = "<" THEN "LessThan" ELSE "GreaterThan"]]
        colon(l1, tok, m) ==
            IF m.m
            THEN [l |-> m.l, start |-> l1.r, tok |-> [tok EXCEPT !.Tag = "Assignment"]]
            ELSE scanWord(s, unreadChar(m.l), tok, l1.r)
        token(l1, tok) ==
            IF \E p \in SingleCharTags : p[1] = l1.peek
            THEN [l |-> l1, start |-> l1.r,
                  tok |-> [tok EXCEPT !.Tag =
                             (CHOOSE p \in SingleCharTags : p[1] = l1.peek)[2]]]
            ELSE IF l1.peek = "<" \/ l1.peek = ">"
            THEN relational(l1, tok, readCharAndMatch(s, l1, "="))
            ELSE IF l1.peek = ":"
            THEN colon(l1, tok, readCharAndMatch(s, l1, "="))
            ELSE scanWord(s, l1, tok, l1.r)
        comments(c) ==
            IF c.err THEN [l |-> c.l, start |-> 0, tok |-> EOF]
            ELSE token(c.l, NewToken(c.l.ln))
        blanks(w) ==
            IF w.err THEN [l |-> w.l, start |-> 0, tok |-> EOF]
            ELSE comments(scanComments(s, w.l))
    IN  blanks(readCharAndWhitespace(s, l))

(***************************************************************************)
(* ast: nodes are records; NilNode is the nil pointer                      *)
(***************************************************************************)
NilTok == [Tag |-> "nil", Val |-> 0, Ln |-> 0, Lex |-> NoLex, Err |-> "nil"]

NilNode == [Tag |-> "nil", Op |-> "none", Tok |-> NilTok, Children |-> <<>>]

NewNode(t) == [Tag |-> t, Op |-> "none", Tok |-> NilTok, Children |-> <<>>]

AppendNode(n, c) == [n EXCEPT !.Children = Append(n.Children, c)]

NewProgramNode(block) == AppendNode(NewNode("Program"), block)

NewBlockNode(cons, vrs, proc, stmt) ==
    [NewNode("Block") EXCEPT !.Children = <<cons, vrs, proc, stmt>>]

NewProcedureNode(iden, bloc) == [NewNode("Procedure") EXCEPT !.Children = <<iden, bloc>>]

NewCallNode(iden) == AppendNode(NewNode("Call"), iden)

NewIfThenNode(cond, stmt) == [NewNode("IfThen") EXCEPT !.Children = <<cond, stmt>>]

NewWhileDoNode(cond, stmt) == [NewNode("WhileDo") EXCEPT !.Children = <<cond, stmt>>]

NewOddNode(expr) == AppendNode(NewNode("Odd"), expr)

NewMathNode(op, left, right) ==
    [NewNode("Math") EXCEPT !.Op = op, !.Children = <<left, right>>]

NewCondNode(op, left, right) ==
    [NewNode("Cond") EXCEPT !.Op = op, !.Children = <<left, right>>]

NewAssignmentNode(left, right) == [NewNode("Assignment") EXCEPT !.Children = <<left, right>>]

NewPrintNode(expr) == AppendNode(NewNode("Print"), expr)

NewTerminalNode(tok) == [NewNode("Terminal") EXCEPT !.Tok = tok]

(***************************************************************************)
(* parser: the Parser is [lex, peek, err], err the lines of the errors     *)
(***************************************************************************)
\* what the calls of Scan return on input s, from lexer l on, up to the first call
\* that leaves the lexer as it was: every later call returns what that one returned.
\* The model evaluates the lexer once for an input and the parser takes call after
\* call from it.
RECURSIVE ScanCalls(_, _)
ScanCalls(s, l) ==
    LET returned(r) == IF r.l = l THEN <<r>> ELSE <<r>> \o ScanCalls(s, r.l)
    IN  returned(Scan(s, l))

\* what the k-th call of Scan returns
ScanCall(ts, k) == IF k < Len(ts) THEN ts[k] ELSE ts[Len(ts)]

\* Parser.move: the parser has called p.lex.Scan() p.calls times before
move(ts, p) ==
    [p EXCEPT !.calls = p.calls + 1,
              !.lex = ScanCall(ts, p.calls + 1).l,
              !.peek = ScanCall(ts, p.calls + 1).tok]

\* a Parser that was not built yet
NoParser == [lex |-> NewLexer, peek |-> NilTok, err |-> <<>>, calls |-> 0]

\* parser.New
NewParser(ts, l) == move(ts, [lex |-> l, peek |-> NilTok, err |-> <<>>, calls |-> 0])

\* Parser.appendError
appendError(p) == [p EXCEPT !.err = Append(p.err, p.peek.Ln)]

\* Parser.compareLookahead
compareLookahead(p, tags) == p.peek.Tag \in tags

\* Parser.accept
accept(ts, p, t) ==
    IF p.peek.Tag = t THEN [p |-> move(ts, p), acc |-> TRUE] ELSE [p |-> p, acc |-> FALSE]

\* an expect that records the error and leaves the lookahead where it is
expectStay(ts, p, t) ==
    IF accept(ts, p, t).acc THEN accept(ts, p, t)
    ELSE [p |-> appendError(p), acc |-> FALSE]

\* Parser.expect
expect(ts, p, t) ==
    IF accept(ts, p, t).acc THEN accept(ts, p, t)
    ELSE [p |-> appendError(move(ts, p)), acc |-> FALSE]

\* Parser.getTerminalNodeFromLookahead
getTerminalNodeFromLookahead(p) ==
    IF p.peek.Tag = "Identifier" \/ p.peek.Tag = "Integer"
    THEN NewTerminalNode(p.peek)
    ELSE NilNode

RECURSIVE constLoop(_, _, _)
RECURSIVE varLoop(_, _, _)
RECURSIVE procedureLoop(_, _, _)
RECURSIVE termLoop(_, _, _)
RECURSIVE expressionLoop(_, _, _)
RECURSIVE beginLoop(_, _, _)
RECURSIVE parseBlock(_, _)
RECURSIVE parseStatement(_, _)
RECURSIVE parseExpression(_, _)

\* Parser.parseConst, the end of one turn of the loop: a is accept(Comma)
constMore(ts, a, node) ==
    IF a.acc THEN constLoop(ts, a.p, node)
    ELSE [p |-> expect(ts, a.p, "Semicolon").p, n |-> node]

\* Parser.parseConst, one turn of the loop: q is the parser at the integer
constItem(ts, cons, iden, q) ==
    constMore(ts, accept(ts, expect(ts, q, "Integer").p, "Comma"),
              AppendNode(cons, NewAssignmentNode(iden, getTerminalNodeFromLookahead(q))))

\* the loop of Parser.parseConst
constLoop(ts, p, cons) ==
    constItem(ts, cons, getTerminalNodeFromLookahead(p),
              expect(ts, expect(ts, p, "Identifier").p, "Equals").p)

\* Parser.parseConst
parseConst(ts, p) ==
    IF ~accept(ts, p, "Const").acc THEN [p |-> p, n |-> NewNode("Const")]
    ELSE constLoop(ts, accept(ts, p, "Const").p, NewNode("Const"))

\* Parser.parseVar, the end of one turn of the loop: a is accept(Comma)
varMore(ts, a, node) ==
    IF a.acc THEN varLoop(ts, a.p, node)
    ELSE [p |-> expect(ts, a.p, "Semicolon").p, n |-> node]

\* the loop of Parser.parseVar
varLoop(ts, p, vrs) ==
    varMore(ts, accept(ts, expect(ts, p, "Identifier").p, "Comma"),
            AppendNode(vrs, getTerminalNodeFromLookahead(p)))

\* Parser.parseVar
parseVar(ts, p) ==
    IF ~accept(ts, p, "Var").acc THEN [p |-> p, n |-> NewNode("Var")]
    ELSE varLoop(ts, accept(ts, p, "Var").p, NewNode("Var"))

\* Parser.parseFactor, the parenthesised expression e
factorParen(ts, e) == [p |-> expect(ts, e.p, "RightParen").p, n |-> e.n]

\* Parser.parseFactor
parseFactor(ts, p) ==
    IF accept(ts, p, "Identifier").acc
    THEN [p |-> accept(ts, p, "Identifier").p, n |-> getTerminalNodeFromLookahead(p)]
    ELSE IF accept(ts, p, "Integer").acc
    THEN [p |-> accept(ts, p, "Integer").p, n |-> getTerminalNodeFromLookahead(p)]
    ELSE IF accept(ts, p, "LeftParen").acc
    THEN factorParen(ts, parseExpression(ts, accept(ts, p, "LeftParen").p))
    ELSE [p |-> p, n |-> NilNode]

\* Parser.parseTerm, the second factor f of a turn of the loop
termSecond(ts, op, fact, f) == termLoop(ts, f.p, NewMathNode(op, fact, f.n))

\* the loop of Parser.parseTerm
termLoop(ts, p, fact) ==
    IF accept(ts, p, "Times").acc
    THEN termSecond(ts, "Times", fact, parseFactor(ts, accept(ts, p, "Times").p))
    ELSE IF accept(ts, p, "Divide").acc
    THEN termSecond(ts, "Divide", fact, parseFactor(ts, accept(ts, p, "Divide").p))
    ELSE [p |-> p, n |-> fact]

\* Parser.parseTerm, after the first factor f
termFirst(ts, f) == termLoop(ts, f.p, f.n)

\* Parser.parseTerm
parseTerm(ts, p) == termFirst(ts, parseFactor(ts, p))

\* Parser.parseExpression, the second term f of a turn of the loop
expressionSecond(ts, op, term, f) == expressionLoop(ts, f.p, NewMathNode(op, term, f.n))

\* the loop of Parser.parseExpression
expressionLoop(ts, p, term) ==
    IF accept(ts, p, "Plus").acc
    THEN expressionSecond(ts, "Plus", term, parseTerm(ts, accept(ts, p, "Plus").p))
    ELSE IF accept(ts, p, "Minus").acc
    THEN expressionSecond(ts, "Minus", term, parseTerm(ts, accept(ts, p, "Minus").p))
    ELSE [p |-> p, n |-> term]

\* the Integer 0 put in front of a term with a leading minus
ZeroTok == [Tag |-> "Integer", Val |-> 0, Ln |-> 0, Lex |-> NoLex, Err |-> "nil"]

\* Parser.parseExpression, after the first term f
expressionFirst(ts, neg, f) ==
    expressionLoop(ts, f.p,
        IF neg THEN NewMathNode("Minus", NewTerminalNode(ZeroTok), f.n) ELSE f.n)

\* Parser.parseExpression
parseExpression(ts, p) ==
    IF accept(ts, p, "Minus").acc
    THEN expressionFirst(ts, TRUE, parseTerm(ts, accept(ts, p, "Minus").p))
    ELSE expressionFirst(ts, FALSE, parseTerm(ts, accept(ts, p, "Plus").p))

\* Parser.parseCondition, the chain that reads the comparison operator
conditionOp(ts, p) ==
    IF accept(ts, p, "Equals").acc
    THEN [p |-> accept(ts, p, "Equals").p, op |-> "Equals"]
    ELSE IF accept(ts, p, "NotEquals").acc
    THEN [p |-> accept(ts, p, "NotEquals").p, op |-> "NotEquals"]
    ELSE IF accept(ts, p, "LessThan").acc
    THEN [p |-> accept(ts, p, "LessThan").p, op |-> "LessThan"]
    ELSE IF accept(ts, p, "GreaterThan").acc
    THEN [p |-> accept(ts, p, "GreaterThan").p, op |-> "GreaterThan"]
    ELSE IF accept(ts, p, "LessThanEqualTo").acc
    THEN [p |-> accept(ts, p, "LessThanEqualTo").p, op |-> "LessThanEqualTo"]
    ELSE [p |-> expect(ts, p, "GreaterThanEqualTo").p, op |-> "GreaterThanEqualTo"]

\* Parser.parseCondition, the right-hand side
conditionRight(op, left, right) == [p |-> right.p, n |-> NewCondNode(op, left.n, right.n)]

\* Parser.parseCondition, after the operator o
conditionCompare(ts, left, o) == conditionRight(o.op, left, parseExpression(ts, o.p))

\* Parser.parseCondition, after the left-hand side
conditionLeft(ts, left) == conditionCompare(ts, left, conditionOp(ts, left.p))

\* Parser.parseCondition, the ODD case
conditionOdd(e) == [p |-> e.p, n |-> NewOddNode(e.n)]

\* Parser.parseCondition
parseCondition(ts, p) ==
    IF accept(ts, p, "Odd").acc
    THEN conditionOdd(parseExpression(ts, accept(ts, p, "Odd").p))
    ELSE conditionLeft(ts, parseExpression(ts, p))

\* the tags that can begin a statement, as Parser.parseStatement lists them
StatementStart == {"Identifier", "Call", "Begin", "If", "While", "Exclamation"}

\* Parser.parseStatement, the end of one turn of the BEGIN loop
beginNext(ts, q, node) ==
    IF compareLookahead(q, StatementStart) THEN beginLoop(ts, q, node)
    ELSE [p |-> expect(ts, q, "End").p, n |-> node]

\* a turn of the BEGIN loop that takes a ";" behind the statement if there is one
beginItemLenient(ts, begin, st) ==
    beginNext(ts, accept(ts, st.p, "Semicolon").p, AppendNode(begin, st.n))

\* Parser.parseStatement, one turn of the BEGIN loop after its statement st
beginItem(ts, begin, st) ==
    beginNext(ts, expect(ts, st.p, "Semicolon").p, AppendNode(begin, st.n))

\* the BEGIN loop of Parser.parseStatement
beginLoop(ts, p, begin) == beginItem(ts, begin, parseStatement(ts, p))

\* Parser.parseStatement, the assignment with right-hand side e
statementAssign(iden, e) == [p |-> e.p, n |-> NewAssignmentNode(iden, e.n)]

\* Parser.parseStatement, the call: q is the parser at the name
statementCall(ts, q) ==
    [p |-> expect(ts, q, "Identifier").p, n |-> NewCallNode(getTerminalNodeFromLookahead(q))]

\* Parser.parseStatement, the statement st of IF or WHILE with condition c
statementBody(tag, c, st) ==
    [p |-> st.p,
     n |-> IF tag = "Then" THEN NewIfThenNode(c.n, st.n) ELSE NewWhileDoNode(c.n, st.n)]

\* Parser.parseStatement, IF and WHILE after the condition c
statementCond(ts, tag, c) ==
    statementBody(tag, c, parseStatement(ts, expect(ts, c.p, tag).p))

\* Parser.parseStatement, the print of e
statementPrint(e) == [p |-> e.p, n |-> NewPrintNode(e.n)]

\* Parser.parseStatement
parseStatement(ts, p) ==
    IF accept(ts, p, "Identifier").acc
    THEN statementAssign(getTerminalNodeFromLookahead(p),
             parseExpression(ts, expect(ts, accept(ts, p, "Identifier").p, "Assignment").p))
    ELSE IF accept(ts, p, "Call").acc
    THEN statementCall(ts, accept(ts, p, "Call").p)
    ELSE IF accept(ts, p, "Begin").acc
    THEN beginLoop(ts, accept(ts, p, "Begin").p, NewNode("Begin"))
    ELSE IF accept(ts, p, "If").acc
    THEN statementCond(ts, "Then", parseCondition(ts, accept(ts, p, "If").p))
    ELSE IF accept(ts, p, "While").acc
    THEN statementCond(ts, "Do", parseCondition(ts, accept(ts, p, "While").p))
    ELSE IF accept(ts, p, "Exclamation").acc
    THEN statementPrint(parseExpression(ts, accept(ts, p, "Exclamation").p))
    ELSE [p |-> appendError(p), n |-> NilNode]

\* Parser.parseProcedure, the end of one turn of the loop: a is accept(Procedure)
procedureMore(ts, a, node) ==
    IF a.acc THEN procedureLoop(ts, a.p, node) ELSE [p |-> a.p, n |-> node]

\* Parser.parseProcedure, one turn of the loop after its block bloc
procedureItem(ts, proc, iden, bloc) ==
    procedureMore(ts, accept(ts, expect(ts, bloc.p, "Semicolon").p, "Procedure"),
                  AppendNode(proc, NewProcedureNode(iden, bloc.n)))

\* the loop of Parser.parseProcedure
procedureLoop(ts, p, proc) ==
    procedureItem(ts, proc, getTerminalNodeFromLookahead(p),
        parseBlock(ts, expect(ts, expect(ts, p, "Identifier").p, "Semicolon").p))

\* Parser.parseProcedure
parseProcedure(ts, p) ==
    IF ~accept(ts, p, "Procedure").acc THEN [p |-> p, n |-> NewNode("ProcedureParent")]
    ELSE procedureLoop(ts, accept(ts, p, "Procedure").p, NewNode("ProcedureParent"))

\* Parser.parseBlock, the statement st
blockStatement(cons, vrs, proc, st) ==
    [p |-> st.p, n |-> NewBlockNode(cons.n, vrs.n, proc.n, st.n)]

\* Parser.parseBlock, after the procedures
blockProcedure(ts, cons, vrs, proc) ==
    blockStatement(cons, vrs, proc, parseStatement(ts, proc.p))

\* Parser.parseBlock, after the vars
blockVar(ts, cons, vrs) == blockProcedure(ts, cons, vrs, parseProcedure(ts, vrs.p))

\* Parser.parseBlock, after the consts
blockConst(ts, cons) == blockVar(ts, cons, parseVar(ts, cons.p))

\* Parser.parseBlock
parseBlock(ts, p) == blockConst(ts, parseConst(ts, p))

\* Parser.Parse, after the final period: q is the parser then
parsePeriod(block, q) ==
    [p |-> q, n |-> IF Len(q.err) > 0 THEN NilNode ELSE NewProgramNode(block.n)]

\* Parser.Parse, after the block
parseProgram(ts, block) == parsePeriod(block, expect(ts, block.p, "Period").p)

\* Parser.Parse: the parser after the call and the node returned (NilNode for nil)
Parse(ts, p) == parseProgram(ts, parseBlock(ts, p))

\* the later stages before main has made them
NoAnalysis == [p |-> NoParser, err |-> <<>>, fault |-> FALSE, n |-> NilNode]

\* codegen.New
NewCodeGenerator == [buf |-> <<>>, count |-> 0]

RegNames == {"$sp", "$fp", "$a0", "$t0", "$t1", "$ra", "$v0"}

NoReturn == [valid |-> FALSE, sp0 |-> 0, sp |-> 0, depth |-> 0]

\* the machine before a text is loaded
NoCpu ==
    [status |-> "off", ip |-> 0, reg |-> [r \in RegNames |-> 0], lo |-> 0,
     mem |-> [a \in {} |-> 0], con |-> <<>>, steps |-> 0,
     calls |-> <<>>, begun |-> 0, returned |-> NoReturn, assigned |-> {}]

(***************************************************************************)
(* SpecLex: one lexer over one input, Scan called again and again          *)
(***************************************************************************)
MaxLen == 3

LexChars == {"a", "1", "<", "=", ":", "/", "*", " ", "\n"}

Texts(n) == UNION { [1..k -> LexChars] : k \in 0..n }

\* token texts, gaps and comments from which the longer inputs are put together
TokTexts == { <<"a">>, <<"1">>, <<"<">>, <<"<", "=">>, <<":", "=">>, <<"/">>, <<"*">>, <<"=">> }

Gaps == { <<>>, <<" ">>, <<"\n">>, <<"/", "*", "a", "*", "/">>, <<"/", "/", "a", "\n">> }

Comments == { <<"/", "*", "*", "/">>, <<"/", "*", "\n", "*", "/">>, <<"/", "/", "\n">> }

NoIns(s) == [base |-> s, at |-> -1, cmt |-> <<>>]

\* base with cmt put in after its first at bytes
Insert(base, at, cmt) == SubSeq(base, 1, at) \o cmt \o SubSeq(base, at + 1, Len(base))

InitLex ==
    /\ mode = "lex"
    /\ \/ \E s \in Texts(MaxLen) : ins = NoIns(s)
       \/ \E t1 \in TokTexts, g \in Gaps, t2 \in TokTexts :
             \/ ins = NoIns(t1 \o g \o t2)
             \/ \E c \in Comments, at \in {Len(t1), Len(t1) + Len(g)} :
                   ins = [base |-> t1 \o g \o t2, at |-> at, cmt |-> c]
    /\ src = IF ins.at < 0 THEN ins.base ELSE Insert(ins.base, ins.at, ins.cmt)
    /\ lx = NewLexer
    /\ out = <<>>
    /\ parser = NoParser
    /\ ast = NilNode
    /\ pc = "start"
    /\ anl = NoAnalysis
    /\ gen = NewCodeGenerator
    /\ cpu = NoCpu

\* one call of Lexer.Scan by the lexer's owner
ScanStep ==
    /\ mode = "lex"
    /\ Len(out) < Len(src) + 2
    /\ LET returned(r) ==
               /\ lx' = r.l
               /\ out' = Append(out, [tok |-> r.tok, start |-> r.start, end |-> r.l.r])
       IN  returned(Scan(src, lx))
    /\ UNCHANGED <<src, ins, mode, parser, ast, pc, anl, gen, cpu>>

NextLex == ScanStep

SpecLex == InitLex /\ [][NextLex]_vars

\* the results of calling Scan on s until EOF comes back, at most fuel times
RECURSIVE ScanAll(_, _, _)
ScanAll(s, l, fuel) ==
    IF fuel = 0 THEN <<>>
    ELSE LET returned(r) ==
                 <<[tok |-> r.tok, start |-> r.start, end |-> r.l.r]>>
                     \o (IF r.tok = EOF THEN <<>> ELSE ScanAll(s, r.l, fuel - 1))
         IN  returned(Scan(s, l))

TokensOf(s) == ScanAll(s, NewLexer, Len(s) + 1)

IsSentinel(tok) == tok.Err # "nil"

\* a token without its line number
Plain(tok) == [Tag |-> tok.Tag, Val |-> tok.Val, Lex |-> tok.Lex, Err |-> tok.Err]

PlainSeq(rs) == [i \in 1..Len(rs) |-> Plain(rs[i].tok)]

Complete(rs) == \E i \in 1..Len(rs) : rs[i].tok = EOF

\* the results up to the first EOF
UpToEOF(rs) ==
    IF Complete(rs)
    THEN SubSeq(rs, 1, CHOOSE i \in 1..Len(rs) : rs[i].tok = EOF /\ \A j \in 1..(i - 1) : rs[j].tok # EOF)
    ELSE rs

NewlinesBefore(s, k) == Cardinality({ i \in 1..(k - 1) : s[i] = "\n" })

\* C8: on every input Scan returns EOF within Len(src)+1 calls (every other token
\* takes at least one byte of the input), and after an EOF every later call returns EOF.
C8_ScanReachesEOF ==
    mode = "lex" =>
        /\ Len(out) >= Len(src) + 1 => \E i \in 1..Len(out) : out[i].tok = EOF
        /\ \A i \in 1..Len(out) : \A j \in i..Len(out) :
              out[i].tok = EOF => out[j].tok = EOF

\* at is directly behind a token of base (or behind blanks that follow it), that
\* token does not end in "/", and another token follows: a place between two tokens
BetweenTokens(base, at) ==
    LET ts == TokensOf(base)
    IN  /\ Complete(ts)
        /\ \E i \in 1..(Len(ts) - 2) :
              /\ ~IsSentinel(ts[i].tok) /\ ~IsSentinel(ts[i + 1].tok)
              /\ ts[i].end <= at /\ at < ts[i + 1].start
              /\ base[ts[i].end] # "/"
              /\ \A k \in (ts[i].end + 1)..at : base[k] \in {" ", "\t", "\n"}

\* C9: a well-formed comment put between two tokens of the input leaves the tags,
\* values and lexemes that Scan returns as they were.
C9_CommentTransparent ==
    (mode = "lex" /\ ins.at >= 0 /\ BetweenTokens(ins.base, ins.at) /\ Complete(out))
        => PlainSeq(UpToEOF(out)) = PlainSeq(TokensOf(ins.base))

\* C10: the line number of every token that is not a sentinel is the number of
\* newline bytes before its first byte.
C10_TokenLine ==
    mode = "lex" =>
        \A i \in 1..Len(out) :
            ~IsSentinel(out[i].tok) => out[i].tok.Ln = NewlinesBefore(src, out[i].start)

(***************************************************************************)
(* The grammar of the language over token tags, as a recogniser that is    *)
(* independent of the parser: G...(t, i, ...) is the set of positions j    *)
(* such that t[i..j-1] derives the nonterminal.  With opt the statement is *)
(* optional, as in the README; without it the grammar is the spec's.       *)
(***************************************************************************)
At(t, i) == IF i \in 1..Len(t) THEN t[i] ELSE "$"

RECURSIVE GExpression(_, _)
RECURSIVE GStatement(_, _, _)
RECURSIVE GBlock(_, _, _)

GFactor(t, i) ==
    (IF At(t, i) \in {"Identifier", "Integer"} THEN {i + 1} ELSE {})
        \cup (IF At(t, i) = "LeftParen"
              THEN { k + 1 : k \in { j \in GExpression(t, i + 1) : At(t, j) = "RightParen" } }
              ELSE {})

RECURSIVE GTermTail(_, _)
GTermTail(t, S) ==
    IF S = {} THEN {}
    ELSE S \cup GTermTail(t, UNION { GFactor(t, k + 1) :
                                       k \in { j \in S : At(t, j) \in {"Times", "Divide"} } })

GTerm(t, i) == GTermTail(t, GFactor(t, i))

RECURSIVE GExpressionTail(_, _)
GExpressionTail(t, S) ==
    IF S = {} THEN {}
    ELSE S \cup GExpressionTail(t, UNION { GTerm(t, k + 1) :
                                             k \in { j \in S : At(t, j) \in {"Plus", "Minus"} } })

GExpression(t, i) ==
    GExpressionTail(t, GTerm(t, IF At(t, i) \in {"Plus", "Minus"} THEN i + 1 ELSE i))

RelOps == {"Equals", "NotEquals", "LessThan", "LessThanEqualTo", "GreaterThan", "GreaterThanEqualTo"}

GCondition(t, i) ==
    (IF At(t, i) = "Odd" THEN GExpression(t, i + 1) ELSE {})
        \cup UNION { GExpression(t, k + 1) : k \in { j \in GExpression(t, i) : At(t, j) \in RelOps } }

RECURSIVE GStatementList(_, _, _)
GStatementList(t, S, opt) ==
    IF S = {} THEN {}
    ELSE S \cup GStatementList(t, UNION { GStatement(t, k + 1, opt) :
                                            k \in { j \in S : At(t, j) = "Semicolon" } }, opt)

GStatement(t, i, opt) ==
    (IF opt THEN {i} ELSE {})
        \cup CASE At(t, i) = "Identifier" ->
                    IF At(t, i + 1) = "Assignment" THEN GExpression(t, i + 2) ELSE {}
               [] At(t, i) = "Call" ->
                    IF At(t, i + 1) = "Identifier" THEN {i + 2} ELSE {}
               [] At(t, i) = "Exclamation" -> GExpression(t, i + 1)
               [] At(t, i) = "Begin" ->
                    { k + 1 : k \in { j \in GStatementList(t, GStatement(t, i + 1, opt), opt) :
                                        At(t, j) = "End" } }
               [] At(t, i) \in {"If", "While"} ->
                    UNION { GStatement(t, k + 1, opt) :
                              k \in { j \in GCondition(t, i + 1) :
                                        At(t, j) = (IF At(t, i) = "If" THEN "Then" ELSE "Do") } }
               [] OTHER -> {}

RECURSIVE GConstItems(_, _)
GConstItems(t, i) ==
    IF At(t, i) = "Identifier" /\ At(t, i + 1) = "Equals" /\ At(t, i + 2) = "Integer"
    THEN IF At(t, i + 3) = "Comma" THEN GConstItems(t, i + 4)
         ELSE IF At(t, i + 3) = "Semicolon" THEN {i + 4} ELSE {}
    ELSE {}

RECURSIVE GVarItems(_, _)
GVarItems(t, i) ==
    IF At(t, i) = "Identifier"
    THEN IF At(t, i + 1) = "Comma" THEN GVarItems(t, i + 2)
         ELSE IF At(t, i + 1) = "Semicolon" THEN {i + 2} ELSE {}
    ELSE {}

GConst(t, i) == IF At(t, i) = "Const" THEN GConstItems(t, i + 1) ELSE {i}

GVar(t, S) == UNION { IF At(t, i) = "Var" THEN GVarItems(t, i + 1) ELSE {i} : i \in S }

RECURSIVE GProcedures(_, _, _)
GProcedures(t, S, opt) ==
    IF S = {} THEN {}
    ELSE S \cup GProcedures(t,
            UNION { { k + 1 : k \in { j \in GBlock(t, i + 3, opt) : At(t, j) = "Semicolon" } } :
                      i \in { j \in S : /\ At(t, j) = "Procedure"
                                        /\ At(t, j + 1) = "Identifier"
                                        /\ At(t, j + 2) = "Semicolon" } }, opt)

GBlock(t, i, opt) ==
    UNION { GStatement(t, j, opt) : j \in GProcedures(t, GVar(t, GConst(t, i)), opt) }

GProgram(t, opt) == \E j \in GBlock(t, 1, opt) : At(t, j) = "Period" /\ j = Len(t)

\* derivable from the grammar of the spec
Derivable(t) == GProgram(t, FALSE)

\* derivable from the grammar of the README, where a statement may be empty
DerivableReadme(t) == GProgram(t, TRUE)

(***************************************************************************)
(* SpecParse: main up to the return of Parse, over programs written as     *)
(* token tags and put into text one token after the other                  *)
(***************************************************************************)
\* the text of a token of the given tag
TextOf(tag) ==
    IF \E k \in Keywords : k.tag = tag THEN (CHOOSE k \in Keywords : k.tag = tag).lex
    ELSE IF \E c \in SingleCharTags : c[2] = tag
    THEN <<(CHOOSE c \in SingleCharTags : c[2] = tag)[1]>>
    ELSE CASE tag = "Identifier" -> <<"x">>
           [] tag = "Integer" -> <<"1">>
           [] tag = "Assignment" -> <<":", "=">>
           [] tag = "LessThan" -> <<"<">>
           [] tag = "LessThanEqualTo" -> <<"<", "=">>
           [] tag = "GreaterThan" -> <<">">>
           [] tag = "GreaterThanEqualTo" -> <<">", "=">>
           [] OTHER -> <<"^">>

\* the tokens put into text with sep between them
RECURSIVE Render(_, _)
Render(toks, sep) ==
    IF Len(toks) = 0 THEN <<>>
    ELSE IF Len(toks) = 1 THEN TextOf(toks[1])
    ELSE TextOf(toks[1]) \o <<sep>> \o Render(Tail(toks), sep)

\* the offset in Render(toks, sep) of the first byte of token k
RECURSIVE TokenOffset(_, _)
TokenOffset(toks, k) ==
    IF k = 1 THEN 1 ELSE TokenOffset(toks, k - 1) + Len(TextOf(toks[k - 1])) + 1

IdentTok == <<"Identifier">>

IntTok == <<"Integer">>

GenExpression ==
    { IdentTok, IntTok, <<"Minus">> \o IdentTok, IdentTok \o <<"Plus">> \o IntTok, IdentTok \o <<"Times">> \o IntTok,
      <<"LeftParen">> \o IdentTok \o <<"RightParen">> }

GenCondition ==
    { <<"Odd">> \o IdentTok, IdentTok \o <<"Equals">> \o IntTok, IdentTok \o <<"LessThan">> \o IntTok,
      IdentTok \o <<"GreaterThanEqualTo">> \o IntTok }

GenSimple ==
    { IdentTok \o <<"Assignment">> \o e : e \in GenExpression }
        \cup { <<"Call">> \o IdentTok, <<"Exclamation">> \o IdentTok }

GenInner == { IdentTok \o <<"Assignment">> \o IntTok, <<"Call">> \o IdentTok }

\* BEGIN ... END with the statements separated by ";" and with them ended by ";"
GenBegin ==
    { <<"Begin">> \o s \o e : s \in GenInner, e \in { <<"End">>, <<"Semicolon", "End">> } }
        \cup { <<"Begin">> \o s1 \o <<"Semicolon">> \o s2 \o e :
                 s1 \in GenInner, s2 \in GenInner, e \in { <<"End">>, <<"Semicolon", "End">> } }

\* BEGIN END, BEGIN ; END, and a BEGIN ... END inside a BEGIN block, followed by ";"
\* and not
GenBeginShapes ==
    { <<"Begin", "End">>, <<"Begin", "Semicolon", "End">> }
        \cup { <<"Begin", "Begin">> \o s \o <<"Semicolon", "End">> \o e :
                 s \in GenInner, e \in { <<"End">>, <<"Semicolon", "End">> } }

GenStatement ==
    GenSimple \cup GenBegin \cup GenBeginShapes
        \cup { <<"If">> \o c \o <<"Then">> \o IdentTok \o <<"Assignment">> \o IntTok : c \in GenCondition }
        \cup { <<"While">> \o c \o <<"Do">> \o <<"Call">> \o IdentTok : c \in GenCondition }

GenDeclarations ==
    { <<>>,
      <<"Const", "Identifier", "Equals", "Integer", "Semicolon">>,
      <<"Var", "Identifier", "Comma", "Identifier", "Semicolon">>,
      <<"Procedure", "Identifier", "Semicolon", "Call", "Identifier", "Semicolon">> }

GenProgram == { d \o s \o <<"Period">> : d \in GenDeclarations, s \in GenStatement }

\* a program as it is, with one token taken out, with one token made a byte that
\* begins no token, cut off before a token, and with a token behind the final "."
\* bad is the position of the first token that violates the grammar where it is known
Mutations(base) ==
    { [toks |-> base, bad |-> 0], [toks |-> Append(base, "Identifier"), bad |-> 0] }
        \cup { [toks |-> SubSeq(base, 1, k - 1) \o SubSeq(base, k + 1, Len(base)), bad |-> 0] :
                 k \in 1..Len(base) }
        \cup { [toks |-> [base EXCEPT ![k] = "Unexpected"], bad |-> k] : k \in 1..Len(base) }
        \cup { [toks |-> SubSeq(base, 1, k - 1), bad |-> k] : k \in 1..Len(base) }

InitParse ==
    /\ mode = "parse"
    /\ \E base \in GenProgram, sep \in {" ", "\n"} : \E m \in Mutations(base) :
          ins = [base |-> base, toks |-> m.toks, bad |-> m.bad, sep |-> sep]
    /\ src = Render(ins.toks, ins.sep)
    /\ lx = NewLexer
    /\ out = <<>>
    /\ parser = NoParser
    /\ ast = NilNode
    /\ pc = "start"
    /\ anl = NoAnalysis
    /\ gen = NewCodeGenerator
    /\ cpu = NoCpu

\* main: p := parser.New(l)
NewParserStep ==
    /\ mode \in {"parse", "analyse", "pipe"}
    /\ pc = "start"
    /\ parser' = NewParser(ScanCalls(src, lx), lx)
    /\ lx' = parser'.lex
    /\ pc' = "new"
    /\ UNCHANGED <<src, ins, out, mode, ast, anl, gen, cpu>>

\* Parser.Parse, called on its own as the parser's tests call it
ParseStep ==
    /\ mode = "parse"
    /\ pc = "new"
    /\ parser' = Parse(ScanCalls(src, NewLexer), parser).p
    /\ ast' = Parse(ScanCalls(src, NewLexer), parser).n
    /\ lx' = parser'.lex
    /\ pc' = "parsed"
    /\ UNCHANGED <<src, ins, out, mode, anl, gen, cpu>>

NextParse == NewParserStep \/ ParseStep

SpecParse == InitParse /\ [][NextParse]_vars

\* C5: every token string derivable from the grammar of the spec is parsed to a
\* node that is not nil.
C5_DerivableParses ==
    (mode = "parse" /\ pc = "parsed" /\ Derivable(ins.toks)) => ast.Tag # "nil"

\* C6: for every input that is not derivable from the grammar (not even with the
\* README's empty statement) Parse records a syntax error and returns nil.
C6_NotDerivableRejected ==
    (mode = "parse" /\ pc = "parsed" /\ ~DerivableReadme(ins.toks))
        => (ast.Tag = "nil" /\ Len(parser.err) > 0)

\* the offset in src of the first token that violates the grammar (the end of the
\* input when the input is cut off)
ViolationOffset ==
    IF ins.bad > Len(ins.toks) THEN Len(src) + 1 ELSE TokenOffset(ins.toks, ins.bad)

\* C7: when Parse fails, the line of the first recorded syntax error is the line of
\* the first token that violates the grammar, also for a byte that begins no token
\* and for an input that ends too early.
C7_FirstErrorLine ==
    (mode = "parse" /\ pc = "parsed" /\ ast.Tag = "nil" /\ ins.bad > 0 /\ Derivable(ins.base))
        => (Len(parser.err) > 0 /\ parser.err[1] = NewlinesBefore(src, ViolationOffset))

\* Statements as the claim about BEGIN blocks has them: inside BEGIN ... END every
\* statement is followed by ";".  TStatement(t, i) is the set of positions j such
\* that t[i..j-1] is such a statement, TItems(t, S) the positions behind one or more
\* statements with their ";" that begin at a position of S.
RECURSIVE TStatement(_, _)
RECURSIVE TItems(_, _)

\* the positions behind a ";" that follows a statement beginning at a position of S
TNext(t, S) ==
    UNION { { k + 1 : k \in { j \in TStatement(t, i) : At(t, j) = "Semicolon" } } : i \in S }

TItems(t, S) == IF S = {} THEN {} ELSE S \cup TItems(t, TNext(t, S))

TStatement(t, i) ==
    CASE At(t, i) = "Identifier" ->
             IF At(t, i + 1) = "Assignment" THEN GExpression(t, i + 2) ELSE {}
      [] At(t, i) = "Call" -> IF At(t, i + 1) = "Identifier" THEN {i + 2} ELSE {}
      [] At(t, i) = "Exclamation" -> GExpression(t, i + 1)
      [] At(t, i) = "Begin" ->
             { k + 1 : k \in { j \in TItems(t, TNext(t, {i + 1})) : At(t, j) = "End" } }
      [] At(t, i) \in {"If", "While"} ->
             UNION { TStatement(t, k + 1) :
                       k \in { j \in GCondition(t, i + 1) :
                                 At(t, j) = (IF At(t, i) = "If" THEN "Then" ELSE "Do") } }
      [] OTHER -> {}

\* the BEGIN at position i has no statement, or one of its statements is followed by
\* END or by the beginning of a statement instead of ";"
BeginViolationAt(t, i) ==
    /\ At(t, i) = "Begin"
    /\ \/ At(t, i + 1) \in {"End", "Semicolon"}
       \/ \E b \in TItems(t, {i + 1}) : \E j \in TStatement(t, b) :
              At(t, j) \in StatementStart \cup {"End"}

BeginViolation(t) == \E i \in 1..Len(t) : BeginViolationAt(t, i)

Key(tag, lex) == [Tag |-> tag, Lex |-> lex]

NewValue(label, order, val, numVars) ==
    [Label |-> label, Order |-> order, Val |-> val, NumVars |-> numVars]

EmptyValue == NewValue("", 0, 0, 0)

NewSymbolTable == [k \in {} |-> EmptyValue]

\* SymbolTable.Put: an entry is overridden if the key is not unique
Put(st, key, value) ==
    [k \in DOMAIN st \cup {key} |-> IF k = key THEN value ELSE st[k]]

\* SymbolTable.Get
Get(st, key) == IF key \in DOMAIN st THEN <<st[key]>> ELSE <<>>

(***************************************************************************)
(* analyser: the Analyser is [err, fault], err the lines of the semantic   *)
(* errors, fault whether a check dereferenced nil or indexed out of range  *)
(***************************************************************************)
NewAnalyser == [err |-> <<>>, fault |-> FALSE]

analyserFault(a) == [a EXCEPT !.fault = TRUE]

\* Analyser.appendError: tok.Ln of a nil token is a nil dereference
analyserAppendError(a, tok) ==
    IF a.fault \/ tok = NilTok THEN analyserFault(a)
    ELSE [a EXCEPT !.err = Append(a.err, tok.Ln)]

\* what the first pass records for a constant: its integer value
ConstantValue(node) == NewValue("", 0, node.Children[2].Tok.Val, 0)

\* what the first pass records for the i-th variable of a block: its order, from 1
IntegerValue(i) == NewValue("", i, 0, 0)

\* what the first pass records for a procedure: the variable count of its block
ProcedureValue(node) == NewValue("", 0, 0, Len(node.Children[2].Children[2].Children))

RECURSIVE loadConsts(_, _, _)
RECURSIVE loadVars(_, _, _)
RECURSIVE loadProcs(_, _, _)

\* Analyser.loadSymbolTables, the loop over the constants
loadConsts(sym, cons, i) ==
    IF i > Len(cons.Children) THEN sym
    ELSE loadConsts(Put(sym, Key("Constant", cons.Children[i].Children[1].Tok.Lex),
                        ConstantValue(cons.Children[i])), cons, i + 1)

\* Analyser.loadSymbolTables, the loop over the vars
loadVars(sym, vrs, i) ==
    IF i > Len(vrs.Children) THEN sym
    ELSE loadVars(Put(sym, Key("Integer", vrs.Children[i].Tok.Lex), IntegerValue(i)),
                  vrs, i + 1)

\* Analyser.loadSymbolTables, the loop over the procedures
loadProcs(sym, proc, i) ==
    IF i > Len(proc.Children) THEN sym
    ELSE loadProcs(Put(sym, Key("Procedure", proc.Children[i].Children[1].Tok.Lex),
                       ProcedureValue(proc.Children[i])), proc, i + 1)

\* Analyser.loadSymbolTables: the table it attaches to the block node, node.Sym.
\* The tables of the inner blocks are the same operator at the inner blocks.
loadSymbolTables(node) ==
    loadProcs(loadVars(loadConsts(NewSymbolTable, node.Children[1], 1),
                       node.Children[2], 1),
              node.Children[3], 1)

\* Analyser.findSymbolInTables
findSymbolInTables(lex, symbol, syms) ==
    \E i \in 1..Len(syms) : Get(syms[i], Key(symbol, lex)) # <<>>

RECURSIVE recurseVarCheck(_, _, _, _)
RECURSIVE recurseExpressionCheck(_, _, _)
RECURSIVE recurseStatementCheck(_, _, _)
RECURSIVE beginCheck(_, _, _, _)
RECURSIVE recurseProcedureCheck(_, _, _, _)
RECURSIVE recurseBlockCheck(_, _, _)

\* Analyser.recurseVarCheck, from the i-th var on
recurseVarCheck(a, node, syms, i) ==
    IF a.fault \/ i > Len(node.Children) THEN a
    ELSE recurseVarCheck(
             IF findSymbolInTables(node.Children[i].Tok.Lex, "Constant", syms)
             THEN analyserAppendError(a, node.Children[i].Tok) ELSE a,
             node, syms, i + 1)

\* Analyser.recurseExpressionCheck, a terminal
terminalCheck(a, node, syms) ==
    IF /\ node.Tok.Tag = "Identifier"
       /\ ~findSymbolInTables(node.Tok.Lex, "Integer", syms)
       /\ ~findSymbolInTables(node.Tok.Lex, "Constant", syms)
    THEN analyserAppendError(a, node.Tok) ELSE a

\* Analyser.recurseExpressionCheck: node.Tag of nil and Children[1] of a node with
\* one child are runtime faults
recurseExpressionCheck(a, node, syms) ==
    IF a.fault THEN a
    ELSE IF node = NilNode THEN analyserFault(a)
    ELSE IF node.Tag = "Terminal" THEN terminalCheck(a, node, syms)
    ELSE IF Len(node.Children) = 0 THEN analyserFault(a)
    ELSE IF Len(node.Children) = 1
         THEN analyserFault(recurseExpressionCheck(a, node.Children[1], syms))
    ELSE recurseExpressionCheck(recurseExpressionCheck(a, node.Children[1], syms),
                                node.Children[2], syms)

\* Analyser.assignmentCheck, after the check a of the expression
assignmentCheck(a, node, syms) ==
    IF a.fault THEN a
    ELSE IF ~findSymbolInTables(node.Children[1].Tok.Lex, "Integer", syms)
         THEN analyserAppendError(a, node.Children[1].Tok) ELSE a

\* a call check that is content with a name declared as anything
callCheckAnyKind(a, node, syms) ==
    IF \A symbol \in {"Constant", "Integer", "Procedure"} :
           ~findSymbolInTables(node.Children[1].Tok.Lex, symbol, syms)
    THEN analyserAppendError(a, node.Children[1].Tok) ELSE a

\* Analyser.callCheck
callCheck(a, node, syms) ==
    IF ~findSymbolInTables(node.Children[1].Tok.Lex, "Procedure", syms)
    THEN analyserAppendError(a, node.Children[1].Tok) ELSE a

\* Analyser.recurseStatementCheck, the loop over the statements of a Begin
beginCheck(a, node, syms, i) ==
    IF a.fault \/ i > Len(node.Children) THEN a
    ELSE beginCheck(recurseStatementCheck(a, node.Children[i], syms), node, syms, i + 1)

\* Analyser.recurseStatementCheck (with ifThenCheck and whileDoCheck)
recurseStatementCheck(a, node, syms) ==
    IF a.fault THEN a
    ELSE IF node = NilNode THEN analyserFault(a)
    ELSE IF node.Tag = "Assignment"
         THEN assignmentCheck(recurseExpressionCheck(a, node.Children[2], syms), node, syms)
    ELSE IF node.Tag = "Call" THEN callCheck(a, node, syms)
    ELSE IF node.Tag = "Begin" THEN beginCheck(a, node, syms, 1)
    ELSE IF node.Tag \in {"IfThen", "WhileDo"}
         THEN recurseStatementCheck(recurseExpressionCheck(a, node.Children[1], syms),
                                    node.Children[2], syms)
    ELSE analyserAppendError(a, node.Tok)

\* Analyser.recurseProcedureCheck, one procedure: a is the analyser after the check
\* of its name
procedureCheck(a, node, syms) == recurseBlockCheck(a, node.Children[2], syms)

\* Analyser.recurseProcedureCheck, from the i-th procedure on
recurseProcedureCheck(a, node, syms, i) ==
    IF a.fault \/ i > Len(node.Children) THEN a
    ELSE recurseProcedureCheck(
             procedureCheck(
                 IF ~findSymbolInTables(node.Children[i].Children[1].Tok.Lex,
                                        "Procedure", syms)
                 THEN analyserAppendError(a, node.Children[i].Children[1].Tok) ELSE a,
                 node.Children[i], syms),
             node, syms, i + 1)

\* Analyser.recurseBlockCheck, with syms the tables including the block's own
blockCheck(a, node, syms) ==
    recurseStatementCheck(
        recurseProcedureCheck(recurseVarCheck(a, node.Children[2], syms, 1),
                              node.Children[3], syms, 1),
        node.Children[4], syms)

\* Analyser.recurseBlockCheck (recurseConstCheck does nothing)
recurseBlockCheck(a, node, syms) ==
    blockCheck(a, node, Append(syms, loadSymbolTables(node)))

\* Analyser.recurseProgramCheck
recurseProgramCheck(a, node) == recurseBlockCheck(a, node.Children[1], <<>>)

\* Analyser.Analyse, after the checks: a is the analyser then
analyseChecked(parsed, a) ==
    [p |-> parsed.p, err |-> a.err, fault |-> a.fault,
     n |-> IF a.fault \/ Len(a.err) > 0 THEN NilNode ELSE parsed.n]

\* Analyser.Analyse, after Parse
analyseParsed(parsed) ==
    IF parsed.n = NilNode
    THEN [p |-> parsed.p, err |-> <<>>, fault |-> FALSE, n |-> NilNode]
    ELSE analyseChecked(parsed, recurseProgramCheck(NewAnalyser, parsed.n))

\* Analyser.Analyse: the parser after it, the errors, whether it faulted, and the
\* node returned (NilNode for nil; a fault returns nothing)
Analyse(ts, p) == analyseParsed(Parse(ts, p))

(***************************************************************************)
(* codegen: the CodeGenerator is [buf, count]; buf holds one record per    *)
(* line written, Ins(op, d, s, t, imm, lab): the mnemonic, up to three     *)
(* registers in the order they are printed, the immediate or offset, and   *)
(* the label; a line "name:" is Ins("label", ..., name)                    *)
(***************************************************************************)
Ins(op, d, s, t, imm, lab) ==
    [op |-> op, d |-> d, s |-> s, t |-> t, imm |-> imm, lab |-> lab]

\* CodeGenerator.writeOut, for the lines the emit functions format
emit(c, lines) == [c EXCEPT !.buf = c.buf \o lines]

\* emitLabel
LabelLine(label) == Ins("label", "", "", "", 0, label)

\* emitStoreWord(r, "$sp", 0); emitSubUnsigned("$sp", "$sp", 4)
PushWord(r) == <<Ins("sw", r, "$sp", "", 0, ""), Ins("subu", "$sp", "$sp", "", 4, "")>>

\* emitAddUnsigned("$sp", "$sp", 4); emitLoadWord(r, "$sp", 0)
PopWord(r) == <<Ins("addu", "$sp", "$sp", "", 4, ""), Ins("lw", r, "$sp", "", 0, "")>>

\* CodeGenerator.getNewLabel: the generator after it and the label
getNewLabel(c, base) ==
    [c |-> [c EXCEPT !.count = c.count + 1], label |-> base \o ToString(c.count)]

RECURSIVE getValueFrom(_, _, _)
\* the loop of getValueFromClosestSymbolTable, from table i down
getValueFrom(key, syms, i) ==
    IF i < 1 THEN [n |-> 0, value |-> <<>>]
    ELSE IF Get(syms[i], key) # <<>>
         THEN [n |-> Len(syms) - i, value |-> Get(syms[i], key)]
    ELSE getValueFrom(key, syms, i - 1)

\* CodeGenerator.getValueFromClosestSymbolTable
getValueFromClosestSymbolTable(key, syms) == getValueFrom(key, syms, Len(syms))

\* CodeGenerator.loadAddressOfPreviousRecord
loadAddressOfPreviousRecord(dest, n, m) ==
    <<Ins("move", dest, "$fp", "", 0, "")>>
    \o [i \in 1..n |-> Ins("lw", dest, dest, "", 4, "")]
    \o <<Ins("subu", dest, dest, "", 4 * m, "")>>

\* generateExpression, an identifier: found is the closest Integer of that name
expressionIdentifier(c, node, syms, found) ==
    IF found.value = <<>>
    THEN emit(c, <<Ins("li", "$a0", "", "",
                       getValueFromClosestSymbolTable(Key("Constant", node.Tok.Lex),
                                                      syms).value[1].Val, "")>>
                 \o PushWord("$a0"))
    ELSE emit(c, loadAddressOfPreviousRecord("$a0", found.n, found.value[1].Order)
                 \o <<Ins("lw", "$a0", "$a0", "", 0, "")>> \o PushWord("$a0"))

\* lines for the operator of a Math node that take the right operand first
MathLinesSwapped(op) ==
    IF op = "Plus" THEN <<Ins("add", "$t0", "$t0", "$t1", 0, "")>>
    ELSE IF op = "Minus" THEN <<Ins("sub", "$t0", "$t0", "$t1", 0, "")>>
    ELSE IF op = "Times"
         THEN <<Ins("mult", "$t0", "$t1", "", 0, ""), Ins("mflo", "$t0", "", "", 0, "")>>
    ELSE IF op = "Divide"
         THEN <<Ins("div", "$t0", "$t1", "", 0, ""), Ins("mflo", "$t0", "", "", 0, "")>>
    ELSE <<>>

\* generateExpression, the lines for the operator of a Math node
MathLines(op) ==
    IF op = "Plus" THEN <<Ins("add", "$t0", "$t0", "$t1", 0, "")>>
    ELSE IF op = "Minus" THEN <<Ins("sub", "$t0", "$t1", "$t0", 0, "")>>
    ELSE IF op = "Times"
         THEN <<Ins("mult", "$t0", "$t1", "", 0, ""), Ins("mflo", "$t0", "", "", 0, "")>>
    ELSE IF op = "Divide"
         THEN <<Ins("div", "$t1", "$t0", "", 0, ""), Ins("mflo", "$t0", "", "", 0, "")>>
    ELSE <<>>

RECURSIVE generateExpression(_, _, _)
\* CodeGenerator.generateExpression
generateExpression(c, node, syms) ==
    IF node.Tag = "Terminal"
    THEN IF node.Tok.Tag = "Identifier"
         THEN expressionIdentifier(c, node, syms,
                  getValueFromClosestSymbolTable(Key("Integer", node.Tok.Lex), syms))
         ELSE IF node.Tok.Tag = "Integer"
         THEN emit(c, <<Ins("li", "$a0", "", "", node.Tok.Val, "")>> \o PushWord("$a0"))
         ELSE c
    ELSE emit(generateExpression(generateExpression(c, node.Children[1], syms),
                                 node.Children[2], syms),
              PopWord("$t0") \o PopWord("$t1") \o MathLines(node.Op) \o PushWord("$t0"))

\* lines for the operator of a Cond node that take the right operand off the left
\* one for < as well
CondLinesSwapped(op, label) ==
    IF op = "Equals" THEN <<Ins("beq", "$t0", "$t1", "", 0, label)>>
    ELSE IF op = "NotEquals" THEN <<Ins("bne", "$t0", "$t1", "", 0, label)>>
    ELSE <<Ins("sub", "$t0", "$t1", "$t0", 0, ""),
           Ins(IF op \in {"LessThan", "GreaterThan"} THEN "bgtz" ELSE "bgez",
               IF op = "GreaterThan" THEN "$t1" ELSE "$t0", "", "", 0, label)>>

\* generateCondition, the lines for the operator of a Cond node
CondLines(op, label) ==
    IF op = "Equals" THEN <<Ins("beq", "$t0", "$t1", "", 0, label)>>
    ELSE IF op = "NotEquals" THEN <<Ins("bne", "$t0", "$t1", "", 0, label)>>
    ELSE IF op = "LessThan"
         THEN <<Ins("sub", "$t0", "$t0", "$t1", 0, ""), Ins("bgtz", "$t0", "", "", 0, label)>>
    ELSE IF op = "GreaterThan"
         THEN <<Ins("sub", "$t0", "$t1", "$t0", 0, ""), Ins("bgtz", "$t1", "", "", 0, label)>>
    ELSE IF op = "LessThanEqualTo"
         THEN <<Ins("sub", "$t0", "$t0", "$t1", 0, ""), Ins("bgez", "$t0", "", "", 0, label)>>
    ELSE IF op = "GreaterThanEqualTo"
         THEN <<Ins("sub", "$t0", "$t1", "$t0", 0, ""), Ins("bgez", "$t0", "", "", 0, label)>>
    ELSE <<>>

\* a generateCondition that evaluates the right operand first
generateConditionSwapped(c, node, label, syms) ==
    IF node.Tag = "Odd"
    THEN emit(generateExpression(c, node.Children[1], syms),
              PopWord("$t0") \o <<Ins("andi", "$t0", "$t0", "", 1, ""),
                                  Ins("bgtz", "$t0", "", "", 0, label)>>)
    ELSE emit(generateExpression(generateExpression(c, node.Children[2], syms),
                                 node.Children[1], syms),
              PopWord("$t0") \o PopWord("$t1") \o CondLines(node.Op, label))

\* CodeGenerator.generateCondition
generateCondition(c, node, label, syms) ==
    IF node.Tag = "Odd"
    THEN emit(generateExpression(c, node.Children[1], syms),
              PopWord("$t0") \o <<Ins("andi", "$t0", "$t0", "", 1, ""),
                                  Ins("bgtz", "$t0", "", "", 0, label)>>)
    ELSE emit(generateExpression(generateExpression(c, node.Children[1], syms),
                                 node.Children[2], syms),
              PopWord("$t0") \o PopWord("$t1") \o CondLines(node.Op, label))

\* the loop that loads the variables of a scope onto the frame, initialised to 0
InitVars(numVars) ==
    [i \in 1..(3 * numVars) |->
        IF i % 3 = 1 THEN Ins("li", "$a0", "", "", 0, "")
        ELSE IF i % 3 = 2 THEN Ins("sw", "$a0", "$sp", "", 0, "")
        ELSE Ins("subu", "$sp", "$sp", "", 4, "")]

\* generateStatement, case ast.Assignment: found is the closest Integer of the name
statementAssignment(c, node, syms, found) ==
    emit(generateExpression(c, node.Children[2], syms),
         PopWord("$a0")
         \o loadAddressOfPreviousRecord("$t0", found.n, found.value[1].Order)
         \o <<Ins("sw", "$a0", "$t0", "", 0, "")>>)

\* generateStatement, case ast.Call: found is the closest Procedure of the name
CallLines(found) ==
    PushWord("$fp")
    \o <<Ins("move", "$a0", "$fp", "", 0, "")>>
    \o [i \in 1..found.n |-> Ins("lw", "$a0", "$a0", "", 4, "")]
    \o PushWord("$a0")
    \o <<Ins("move", "$fp", "$sp", "", 0, "")>>
    \o InitVars(found.value[1].NumVars)
    \o <<Ins("jal", "", "", "", 0, found.value[1].Label)>>

\* generateStatement, case ast.Print, after the expression
PrintLines ==
    PopWord("$a0")
    \o <<Ins("li", "$v0", "", "", 1, ""), Ins("syscall", "", "", "", 0, ""),
         Ins("li", "$a0", "", "", 10, ""), Ins("li", "$v0", "", "", 11, ""),
         Ins("syscall", "", "", "", 0, "")>>

RECURSIVE generateStatement(_, _, _)
RECURSIVE statementBegin(_, _, _, _)

\* generateStatement, case ast.Begin, from the i-th statement on
statementBegin(c, node, syms, i) ==
    IF i > Len(node.Children) THEN c
    ELSE statementBegin(generateStatement(c, node.Children[i], syms), node, syms, i + 1)

\* generateStatement, case ast.IfThen: g is getNewLabel("if")
statementIfThen(g, node, syms) ==
    emit(generateStatement(
             emit(generateCondition(g.c, node.Children[1], g.label, syms),
                  <<Ins("j", "", "", "", 0, g.label \o "_done"), LabelLine(g.label)>>),
             node.Children[2], syms),
         <<LabelLine(g.label \o "_done")>>)

\* a loop that goes back to its body, not to its condition
statementWhileDoNoRetest(g, h, node, syms) ==
    emit(generateStatement(
             emit(generateCondition(emit(h.c, <<LabelLine(g.label)>>), node.Children[1],
                                    g.label \o "_do", syms),
                  <<Ins("j", "", "", "", 0, h.label), LabelLine(g.label \o "_do")>>),
             node.Children[2], syms),
         <<Ins("j", "", "", "", 0, g.label \o "_do"), LabelLine(h.label)>>)

\* generateStatement, case ast.WhileDo: g is getNewLabel("while"), h getNewLabel("done")
statementWhileDo(g, h, node, syms) ==
    emit(generateStatement(
             emit(generateCondition(emit(h.c, <<LabelLine(g.label)>>), node.Children[1],
                                    g.label \o "_do", syms),
                  <<Ins("j", "", "", "", 0, h.label), LabelLine(g.label \o "_do")>>),
             node.Children[2], syms),
         <<Ins("j", "", "", "", 0, g.label), LabelLine(h.label)>>)

\* CodeGenerator.generateStatement
generateStatement(c, node, syms) ==
    IF node.Tag = "Assignment"
    THEN statementAssignment(c, node, syms,
             getValueFromClosestSymbolTable(Key("Integer", node.Children[1].Tok.Lex), syms))
    ELSE IF node.Tag = "Call"
    THEN emit(c, CallLines(getValueFromClosestSymbolTable(
                               Key("Procedure", node.Children[1].Tok.Lex), syms)))
    ELSE IF node.Tag = "Begin" THEN statementBegin(c, node, syms, 1)
    ELSE IF node.Tag = "IfThen" THEN statementIfThen(getNewLabel(c, "if"), node, syms)
    ELSE IF node.Tag = "WhileDo"
    THEN statementWhileDo(getNewLabel(c, "while"),
                          getNewLabel(getNewLabel(c, "while").c, "done"), node, syms)
    ELSE IF node.Tag = "Print"
    THEN emit(generateExpression(c, node.Children[1], syms), PrintLines)
    ELSE c

\* an epilogue that takes the slots of the locals and of the links off the stack
\* and leaves the slot of the return address
FrameBytesShort(numVars) == 4 * numVars + 8

\* generateProcedure: the bytes the epilogue takes off the stack
FrameBytes(numVars) == 4 * numVars + 12

\* generateProcedure, the lines that end a procedure
DoneLines(label, numVars) ==
    <<LabelLine(label \o "_done"), Ins("lw", "$ra", "$sp", "", 4, ""),
      Ins("addu", "$sp", "$sp", "", FrameBytes(numVars), ""),
      Ins("lw", "$fp", "$sp", "", 0, ""), Ins("jr", "$ra", "", "", 0, "")>>

\* lines that begin a procedure without the jump to its body
EntryLinesNoJump(label) == <<LabelLine(label)>> \o PushWord("$ra")

\* generateProcedure, the lines that begin a procedure
EntryLines(label) ==
    <<LabelLine(label)>> \o PushWord("$ra") \o <<Ins("j", "", "", "", 0, label \o "_body")>>

\* syms[len(syms)-1].Put(key, &value)
PutLast(syms, key, value) == [syms EXCEPT ![Len(syms)] = Put(syms[Len(syms)], key, value)]

RECURSIVE generateProcedure(_, _, _, _)

\* generateProcedure, one procedure after its nested procedures: nest is the generator
\* and nestSyms then, syms the tables of the enclosing scopes with the new value
procedureBody(nest, bloc, label, syms) ==
    [c |-> emit(generateStatement(emit(nest.c, <<LabelLine(label \o "_body")>>),
                                  bloc.Children[4], nest.syms),
                DoneLines(label, Len(bloc.Children[2].Children))),
     syms |-> syms]

\* generateProcedure, one procedure with its value written back: g is getNewLabel
procedureNested(g, bloc, syms) ==
    procedureBody(generateProcedure(emit(g.c, EntryLines(g.label)), bloc.Children[3],
                                    Append(syms, loadSymbolTables(bloc)), 1),
                  bloc, g.label, syms)

\* generateProcedure, one procedure: g is getNewLabel("procedure")
procedureOne(g, node, syms) ==
    procedureNested(g, node.Children[2],
        PutLast(syms, Key("Procedure", node.Children[1].Tok.Lex),
                NewValue(g.label, 0, 0, Len(node.Children[2].Children[2].Children))))

\* generateProcedure, the next turn of the loop
procedureNext(r, node, i) == generateProcedure(r.c, node, r.syms, i)

\* CodeGenerator.generateProcedure, from the i-th procedure on: the generator and the
\* tables (the tables are shared, so what Put wrote is seen by the caller)
generateProcedure(c, node, syms, i) ==
    IF i > Len(node.Children) THEN [c |-> c, syms |-> syms]
    ELSE procedureNext(procedureOne(getNewLabel(c, "procedure"), node.Children[i], syms),
                       node, i + 1)

\* generateProgram, after the procedures
programMain(r, bloc) ==
    emit(generateStatement(
             emit(r.c, <<LabelLine("main"), Ins("move", "$fp", "$sp", "", 0, "")>>
                       \o InitVars(Len(bloc.Children[2].Children))),
             bloc.Children[4], r.syms),
         <<Ins("li", "$v0", "", "", 10, ""), Ins("syscall", "", "", "", 0, "")>>)

\* CodeGenerator.generateProgram
generateProgram(c, node) ==
    programMain(generateProcedure(c, node.Children[1].Children[3],
                                  <<loadSymbolTables(node.Children[1])>>, 1),
                node.Children[1])

\* Generate with the first line written before the node is looked at
GenerateEager(c, node) ==
    IF node = NilNode THEN emit(c, <<LabelLine("main")>>) ELSE generateProgram(c, node)

\* CodeGenerator.Generate, after Analyse returned node
Generate(c, node) == IF node = NilNode THEN c ELSE generateProgram(c, node)

(***************************************************************************)
(* The machine that runs the lines of buf (SPIM): registers, the word      *)
(* memory, and ip, the index in buf of the next line.  The address of line *)
(* k is CodeAddr(k).  calls, begun, returned and assigned are history: the *)
(* calls in progress, $sp at the start of the last call sequence, the last *)
(* return, and the addresses that assignments of the activations in        *)
(* progress stored to                                                      *)
(***************************************************************************)
TextBase == 2^22

StackTop == 2^30 + (2^30 - 4100)

DataBase == 2^28

CodeAddr(k) == TextBase + 4 * k

CodeIndex(a) == (a - TextBase) \div 4

ValidCode(code, a) == a % 4 = 0 /\ CodeIndex(a) \in 1..Len(code)

ValidData(a) == a % 4 = 0 /\ a >= DataBase /\ a <= StackTop

\* the lines that define the label
LabelIndices(code, lab) == {k \in 1..Len(code) : code[k].op = "label" /\ code[k].lab = lab}

LabelIndex(code, lab) == CHOOSE k \in LabelIndices(code, lab) : TRUE

\* the assembler accepts the text: every label is defined once, every label named
\* by a jump is defined, and there is a main
Assembles(code) ==
    /\ \A k \in 1..Len(code) :
          (code[k].lab # "" \/ code[k].op \in {"j", "jal", "label"})
          => Cardinality(LabelIndices(code, code[k].lab)) = 1
    /\ Cardinality(LabelIndices(code, "main")) = 1

\* the machine when the text is loaded: it starts at main with an empty stack
Boot(code) ==
    IF ~Assembles(code) THEN [NoCpu EXCEPT !.status = "rejected"]
    ELSE [NoCpu EXCEPT !.status = "run", !.ip = LabelIndex(code, "main"),
                       !.reg["$sp"] = StackTop]

Load(m, a) == IF a \in DOMAIN m.mem THEN m.mem[a] ELSE 0

Store(m, a, v) == [x \in DOMAIN m.mem \cup {a} |-> IF x = a THEN v ELSE m.mem[x]]

SetReg(m, r, v) == [m EXCEPT !.reg[r] = v, !.ip = m.ip + 1]

Fault(m) == [m EXCEPT !.status = "fault"]

Goto(m, code, lab) == [m EXCEPT !.ip = LabelIndex(code, lab)]

Branch(m, code, taken, lab) == IF taken THEN Goto(m, code, lab) ELSE [m EXCEPT !.ip = m.ip + 1]

\* the quotient the machine computes: it rounds towards zero
Quotient(a, b) ==
    IF (a >= 0) = (b >= 0) THEN (IF a >= 0 THEN a \div b ELSE (0 - a) \div (0 - b))
    ELSE 0 - ((IF a >= 0 THEN a ELSE 0 - a) \div (IF b >= 0 THEN b ELSE 0 - b))

\* lw, sw: an address that is not a word of the data or stack segment is a fault;
\* sw $fp is the first line of a call sequence, sw to 0($t0) the store of an assignment
ExecMem(m, i) ==
    IF ~ValidData(m.reg[i.s] + i.imm) THEN Fault(m)
    ELSE IF i.op = "lw" THEN SetReg(m, i.d, Load(m, m.reg[i.s] + i.imm))
    ELSE [m EXCEPT !.mem = Store(m, m.reg[i.s] + i.imm, m.reg[i.d]), !.ip = m.ip + 1,
                   !.begun = IF i.d = "$fp" THEN m.reg["$sp"] ELSE m.begun,
                   !.assigned = IF i.s = "$t0" THEN m.assigned \cup {m.reg[i.s] + i.imm}
                                ELSE m.assigned]

\* jr: a return of the call in progress takes it off calls
ExecReturn(m, code, a) ==
    IF ~ValidCode(code, a) THEN Fault(m)
    ELSE IF m.calls # <<>> /\ m.calls[Len(m.calls)].ret = CodeIndex(a)
    THEN [m EXCEPT !.ip = CodeIndex(a),
                   !.calls = SubSeq(m.calls, 1, Len(m.calls) - 1),
                   !.returned = [valid |-> TRUE, sp0 |-> m.calls[Len(m.calls)].sp0,
                                 sp |-> m.reg["$sp"], depth |-> Len(m.calls)]]
    ELSE [m EXCEPT !.ip = CodeIndex(a)]

\* jal: the callee's frame runs from the slot of the dynamic link down to the slot
\* its first line saves $ra in; nothing at or below its $fp is assigned in the new
\* activation yet
ExecCall(m, code, i) ==
    [m EXCEPT !.reg["$ra"] = CodeAddr(m.ip + 1), !.ip = LabelIndex(code, i.lab),
              !.calls = Append(m.calls,
                  [proc |-> i.lab, ret |-> m.ip + 1, sp0 |-> m.begun,
                   fp |-> m.reg["$fp"], low |-> m.reg["$sp"]]),
              !.assigned = {a \in m.assigned : a > m.reg["$fp"]}]

\* syscall: 10 ends the run, 1 and 11 write $a0 to the console
ExecSyscall(m) ==
    IF m.reg["$v0"] = 10 THEN [m EXCEPT !.status = "exit"]
    ELSE IF m.reg["$v0"] \in {1, 11}
    THEN [m EXCEPT !.con = Append(m.con, m.reg["$a0"]), !.ip = m.ip + 1]
    ELSE [m EXCEPT !.ip = m.ip + 1]

\* one line of the text
Exec(m, code, i) ==
    CASE i.op = "label" -> [m EXCEPT !.ip = m.ip + 1]
      [] i.op = "li" -> SetReg(m, i.d, i.imm)
      [] i.op = "move" -> SetReg(m, i.d, m.reg[i.s])
      [] i.op = "addu" -> SetReg(m, i.d, m.reg[i.s] + i.imm)
      [] i.op = "subu" -> SetReg(m, i.d, m.reg[i.s] - i.imm)
      [] i.op = "add" -> SetReg(m, i.d, m.reg[i.s] + m.reg[i.t])
      [] i.op = "sub" -> SetReg(m, i.d, m.reg[i.s] - m.reg[i.t])
      [] i.op = "andi" -> SetReg(m, i.d, m.reg[i.s] % (i.imm + 1))
      [] i.op = "mult" -> [m EXCEPT !.lo = m.reg[i.d] * m.reg[i.s], !.ip = m.ip + 1]
      [] i.op = "div" ->
            IF m.reg[i.s] = 0 THEN Fault(m)
            ELSE [m EXCEPT !.lo = Quotient(m.reg[i.d], m.reg[i.s]), !.ip = m.ip + 1]
      [] i.op = "mflo" -> SetReg(m, i.d, m.lo)
      [] i.op \in {"lw", "sw"} -> ExecMem(m, i)
      [] i.op = "beq" -> Branch(m, code, m.reg[i.d] = m.reg[i.s], i.lab)
      [] i.op = "bne" -> Branch(m, code, m.reg[i.d] # m.reg[i.s], i.lab)
      [] i.op = "bgtz" -> Branch(m, code, m.reg[i.d] > 0, i.lab)
      [] i.op = "bgez" -> Branch(m, code, m.reg[i.d] >= 0, i.lab)
      [] i.op = "j" -> Goto(m, code, i.lab)
      [] i.op = "jal" -> ExecCall(m, code, i)
      [] i.op = "jr" -> ExecReturn(m, code, m.reg[i.d])
      [] i.op = "syscall" -> ExecSyscall(m)

(***************************************************************************)
(* Spec: main from parser.New to the end of Generate, and the run of the   *)
(* generated text, over programs written as words: a letter or a digit is  *)
(* itself, every other word is the tag of a keyword or of a sign           *)
(***************************************************************************)
MaxSteps == 400

Word(w) == IF isAlpha(w) \/ isDigit(w) THEN <<w>> ELSE TextOf(w)

RECURSIVE Spell(_)
Spell(ws) == IF ws = <<>> THEN <<>> ELSE Word(Head(ws)) \o <<" ">> \o Spell(Tail(ws))

\* VAR x, z; PROCEDURE p; VAR a, w; PROCEDURE q; x := a;
\* BEGIN a := 5; CALL q; END; BEGIN CALL p; CALL p; END.
ProgNested ==
    <<"Var", "x", "Comma", "z", "Semicolon",
      "Procedure", "p", "Semicolon", "Var", "a", "Comma", "w", "Semicolon",
      "Procedure", "q", "Semicolon", "x", "Assignment", "a", "Semicolon",
      "Begin", "a", "Assignment", "5", "Semicolon", "Call", "q", "Semicolon", "End",
      "Semicolon",
      "Begin", "Call", "p", "Semicolon", "Call", "p", "Semicolon", "End", "Period">>

\* VAR n, z; PROCEDURE p; BEGIN n := n - 1; IF n # 0 THEN CALL p; END;
\* BEGIN n := 2; CALL p; END.
ProgRecursive ==
    <<"Var", "n", "Comma", "z", "Semicolon", "Procedure", "p", "Semicolon",
      "Begin", "n", "Assignment", "n", "Minus", "1", "Semicolon",
      "If", "n", "NotEquals", "0", "Then", "Call", "p", "Semicolon", "End", "Semicolon",
      "Begin", "n", "Assignment", "2", "Semicolon", "Call", "p", "Semicolon", "End",
      "Period">>

\* VAR x, z; PROCEDURE s; x := x + 1; PROCEDURE p; PROCEDURE q; CALL s; CALL q; CALL p.
ProgSibling ==
    <<"Var", "x", "Comma", "z", "Semicolon",
      "Procedure", "s", "Semicolon", "x", "Assignment", "x", "Plus", "1", "Semicolon",
      "Procedure", "p", "Semicolon", "Procedure", "q", "Semicolon", "Call", "s",
      "Semicolon", "Call", "q", "Semicolon", "Call", "p", "Period">>

\* VAR x; PROCEDURE p; x := 7; BEGIN CALL p; CALL p; END.
ProgLastVar ==
    <<"Var", "x", "Semicolon", "Procedure", "p", "Semicolon",
      "x", "Assignment", "7", "Semicolon",
      "Begin", "Call", "p", "Semicolon", "Call", "p", "Semicolon", "End", "Period">>

\* PROCEDURE p; VAR a; a := 0; CALL p.
ProgLastLocal ==
    <<"Procedure", "p", "Semicolon", "Var", "a", "Semicolon", "a", "Assignment", "0",
      "Semicolon", "Call", "p", "Period">>

\* <outer> PROCEDURE p; <inner> z := a; CALL p.   (the four ways to declare a twice)
ProgShadow(outer, inner) ==
    outer \o <<"Procedure", "p", "Semicolon">> \o inner
          \o <<"z", "Assignment", "a", "Semicolon", "Call", "p", "Period">>

DeclConst(v) == <<"Const", "a", "Equals", v, "Semicolon">>

ProgShadows ==
    { ProgShadow(<<"Var", "a", "Comma", "z", "Comma", "w", "Semicolon">>, DeclConst("3")),
      ProgShadow(<<"Var", "a", "Comma", "z", "Comma", "w", "Semicolon">>,
                 <<"Var", "b", "Comma", "a", "Comma", "w", "Semicolon">>),
      ProgShadow(DeclConst("1") \o <<"Var", "z", "Comma", "w", "Semicolon">>, DeclConst("3")),
      ProgShadow(DeclConst("1") \o <<"Var", "z", "Comma", "w", "Semicolon">>,
                 <<"Var", "b", "Comma", "a", "Comma", "w", "Semicolon">>) }

\* programs that fail: BEGIN x := 1 END.   x := 1.   VAR x; ! x.   VAR x; x := .
\* VAR x; IF ODD x THEN x := 1.   CALL p.
ProgFailing ==
    { <<"Begin", "x", "Assignment", "1", "End", "Period">>,
      <<"x", "Assignment", "1", "Period">>,
      <<"Var", "x", "Semicolon", "Exclamation", "x", "Period">>,
      <<"Var", "x", "Semicolon", "x", "Assignment", "Period">>,
      <<"Var", "x", "Semicolon", "If", "Odd", "x", "Then", "x", "Assignment", "1", "Period">>,
      <<"Call", "p", "Period">>,
      <<"Var", "x", "Semicolon", "x", "Assignment", "1">> }

\* VAR z, w; IF <l> op <r> THEN z := 1.
ProgCond(op, l, r) ==
    <<"Var", "z", "Comma", "w", "Semicolon", "If">> \o l \o <<op>> \o r
        \o <<"Then", "z", "Assignment", "1", "Period">>

\* the operands of the comparisons: 0, 2 and -1
CondOperands == { <<"0">>, <<"2">>, <<"Minus", "1">> }

CondOps ==
    {"Equals", "NotEquals", "LessThan", "GreaterThan", "LessThanEqualTo", "GreaterThanEqualTo"}

ProgConds == { ProgCond(op, l, r) : op \in CondOps, l \in CondOperands, r \in CondOperands }

\* VAR z, w; z := <e>.
ProgMath(e) ==
    <<"Var", "z", "Comma", "w", "Semicolon", "z", "Assignment">> \o e \o <<"Period">>

MathOps == {"Plus", "Minus", "Times", "Divide"}

\* 7 op 2,  7 op (5 - 3),  (0 - 7) op (5 - 3),  7 op 2 op 3,  7 - 2 * 3
MathExpressions ==
    { <<"7", op, "2">> : op \in MathOps }
        \cup { <<"7", op, "LeftParen", "5", "Minus", "3", "RightParen">> : op \in MathOps }
        \cup { <<"LeftParen", "0", "Minus", "7", "RightParen", op,
                 "LeftParen", "5", "Minus", "3", "RightParen">> : op \in MathOps }
        \cup { <<"7", op, "2", op, "3">> : op \in MathOps }
        \cup { <<"7", "Minus", "2", "Times", "3">> }

ProgMaths == { ProgMath(e) : e \in MathExpressions }

\* programs that read a variable before they assign to it:
\* VAR z, x; BEGIN z := 5; z := x END.
\* VAR z, w; PROCEDURE p; VAR a; z := a; CALL p.
\* VAR z, w; PROCEDURE p; VAR a, b; BEGIN z := z + a; a := 7 END; BEGIN CALL p; CALL p END.
ProgFresh ==
    { <<"Var", "z", "Comma", "x", "Semicolon", "Begin", "z", "Assignment", "5", "Semicolon",
        "z", "Assignment", "x", "Semicolon", "End", "Period">>,
      <<"Var", "z", "Comma", "w", "Semicolon", "Procedure", "p", "Semicolon",
        "Var", "a", "Semicolon", "z", "Assignment", "a", "Semicolon", "Call", "p", "Period">>,
      <<"Var", "z", "Comma", "w", "Semicolon", "Procedure", "p", "Semicolon",
        "Var", "a", "Comma", "b", "Semicolon",
        "Begin", "z", "Assignment", "z", "Plus", "a", "Semicolon",
        "a", "Assignment", "7", "Semicolon", "End", "Semicolon",
        "Begin", "Call", "p", "Semicolon", "Call", "p", "Semicolon", "End", "Period">> }

\* VAR i, j, w; WHILE i # 2 DO BEGIN WHILE j # i + 1 DO j := j + 1; i := i + 1; END.
ProgLoopNested ==
    <<"Var", "i", "Comma", "j", "Comma", "w", "Semicolon",
      "While", "i", "NotEquals", "2", "Do", "Begin",
      "While", "j", "NotEquals", "i", "Plus", "1", "Do",
      "j", "Assignment", "j", "Plus", "1", "Semicolon",
      "i", "Assignment", "i", "Plus", "1", "Semicolon", "End", "Period">>

\* VAR n, z, w; WHILE n # 3 DO BEGIN IF n = 1 THEN z := 5; n := n + 1; END.
ProgLoopIf ==
    <<"Var", "n", "Comma", "z", "Comma", "w", "Semicolon",
      "While", "n", "NotEquals", "3", "Do", "Begin",
      "If", "n", "Equals", "1", "Then", "z", "Assignment", "5", "Semicolon",
      "n", "Assignment", "n", "Plus", "1", "Semicolon", "End", "Period">>

\* VAR n, k, w; PROCEDURE p; WHILE k # n DO k := k + 1;
\* WHILE n # 2 DO BEGIN n := n + 1; CALL p; END.
ProgLoopCall ==
    <<"Var", "n", "Comma", "k", "Comma", "w", "Semicolon",
      "Procedure", "p", "Semicolon",
      "While", "k", "NotEquals", "n", "Do", "k", "Assignment", "k", "Plus", "1", "Semicolon",
      "While", "n", "NotEquals", "2", "Do", "Begin",
      "n", "Assignment", "n", "Plus", "1", "Semicolon", "Call", "p", "Semicolon",
      "End", "Period">>

\* VAR n, w; WHILE n # 0 DO n := 1.
ProgLoopNever ==
    <<"Var", "n", "Comma", "w", "Semicolon",
      "While", "n", "NotEquals", "0", "Do", "n", "Assignment", "1", "Period">>

ProgLoops == {ProgLoopNested, ProgLoopIf, ProgLoopCall, ProgLoopNever}

\* VAR z, w; PROCEDURE p; CALL q; PROCEDURE q; z := 1; CALL p.
ProgLater ==
    <<"Var", "z", "Comma", "w", "Semicolon", "Procedure", "p", "Semicolon",
      "Call", "q", "Semicolon", "Procedure", "q", "Semicolon",
      "z", "Assignment", "1", "Semicolon", "Call", "p", "Period">>

Programs ==
    {ProgNested, ProgRecursive, ProgSibling, ProgLastVar, ProgLastLocal}
        \cup ProgShadows \cup ProgFailing \cup ProgConds \cup ProgMaths \cup ProgFresh
        \cup ProgLoops \cup {ProgLater}

Init ==
    /\ mode = "pipe"
    /\ ins \in Programs
    /\ src = Spell(ins)
    /\ lx = NewLexer
    /\ out = <<>>
    /\ parser = NoParser
    /\ ast = NilNode
    /\ pc = "start"
    /\ anl = NoAnalysis
    /\ gen = NewCodeGenerator
    /\ cpu = NoCpu

\* main: c.Generate(), which calls Analyse, which calls Parse; a fault in the analyser
\* ends the process before anything is generated
GenerateStep ==
    /\ mode = "pipe"
    /\ pc = "new"
    /\ anl' = Analyse(ScanCalls(src, NewLexer), parser)
    /\ parser' = anl'.p
    /\ lx' = parser'.lex
    /\ ast' = anl'.n
    /\ gen' = IF anl'.fault THEN gen ELSE Generate(gen, anl'.n)
    /\ pc' = IF anl'.fault THEN "panic" ELSE "generated"
    /\ UNCHANGED <<src, ins, out, mode, cpu>>

\* the generated text is loaded into the machine
LoadStep ==
    /\ pc = "generated"
    /\ gen.buf # <<>>
    /\ cpu' = Boot(gen.buf)
    /\ pc' = "loaded"
    /\ UNCHANGED <<src, ins, lx, out, mode, parser, ast, anl, gen>>

\* the machine runs one line; running off the end of the text is a fault
ExecStep ==
    /\ pc = "loaded"
    /\ cpu.status = "run"
    /\ cpu.steps < MaxSteps
    /\ cpu' = IF cpu.ip > Len(gen.buf) THEN Fault(cpu)
              ELSE [Exec(cpu, gen.buf, gen.buf[cpu.ip]) EXCEPT !.steps = cpu.steps + 1]
    /\ UNCHANGED <<src, ins, lx, out, mode, parser, ast, pc, anl, gen>>

Next == NewParserStep \/ GenerateStep \/ LoadStep \/ ExecStep

Spec == Init /\ [][Next]_vars

(***************************************************************************)
(* Properties of Spec                                                      *)
(***************************************************************************)
\* C1: when Generate is over and Parse returned nil (the parser holds an error) or
\* Analyse returned nil or did not return, the buffer of the code generator is empty:
\* lines are written only for a program that passed parsing and analysis.
C1_NoOutputOnFailure ==
    (pc \in {"generated", "loaded", "panic"} /\ (Len(parser.err) > 0 \/ ast = NilNode))
        => gen.buf = <<>>

\* Generate is over for a program that parses and that the analyser rejects with a
\* semantic error, and nothing was written
C1_SemanticErrorEmpty ==
    /\ pc = "generated"
    /\ Len(parser.err) = 0
    /\ Len(anl.err) > 0
    /\ ast = NilNode
    /\ gen.buf = <<>>

\* C2: whenever a jr returns to the line after the jal of the call in progress, $sp
\* is what it was before the first line of that call sequence (the push of $fp).
C2_CallRestoresSp == cpu.returned.valid => cpu.returned.sp = cpu.returned.sp0

\* a call made by a called procedure has returned (in the recursive program: p called
\* by p), with $sp restored
C2_NestedCallReturned ==
    /\ ins = ProgRecursive
    /\ cpu.returned.valid
    /\ cpu.returned.depth >= 2
    /\ cpu.returned.sp = cpu.returned.sp0

\* the chains of blocks of a program, from the block of main down to a nested block
RECURSIVE Chains(_)
Chains(bloc) ==
    {<<bloc>>} \cup
    UNION { { <<bloc>> \o ch : ch \in Chains(bloc.Children[3].Children[i].Children[2]) } :
            i \in 1..Len(bloc.Children[3].Children) }

\* the names a statement or an expression uses as operands
RECURSIVE Operands(_)
Operands(node) ==
    IF node.Tag = "Terminal"
    THEN (IF node.Tok.Tag = "Identifier" THEN {node.Tok.Lex} ELSE {})
    ELSE IF node.Tag = "Call" THEN {}
    ELSE IF node.Tag = "Assignment" THEN Operands(node.Children[2])
    ELSE UNION { Operands(node.Children[i]) : i \in 1..Len(node.Children) }

\* the names a statement assigns to
RECURSIVE Targets(_)
Targets(node) ==
    IF node.Tag = "Assignment" THEN {node.Children[1].Tok.Lex}
    ELSE IF node.Tag = "Begin"
    THEN UNION { Targets(node.Children[i]) : i \in 1..Len(node.Children) }
    ELSE IF node.Tag \in {"IfThen", "WhileDo"} THEN Targets(node.Children[2])
    ELSE {}

\* where a block declares a name: the places in its CONST list and in its VAR list
ConstPlaces(bloc, lex) ==
    {i \in 1..Len(bloc.Children[1].Children) :
        bloc.Children[1].Children[i].Children[1].Tok.Lex = lex}

VarPlaces(bloc, lex) ==
    {i \in 1..Len(bloc.Children[2].Children) : bloc.Children[2].Children[i].Tok.Lex = lex}

Maximum(S) == CHOOSE x \in S : \A y \in S : y <= x

\* the blocks of the chain that declare the name as a constant or as a variable
Declaring(chain, lex) ==
    {i \in 1..Len(chain) : ConstPlaces(chain[i], lex) \cup VarPlaces(chain[i], lex) # {}}

\* the lines that push the operand as block i of the chain declares it
OperandLines(chain, lex, i) ==
    IF VarPlaces(chain[i], lex) # {}
    THEN loadAddressOfPreviousRecord("$a0", Len(chain) - i,
                                     Maximum(VarPlaces(chain[i], lex)))
         \o <<Ins("lw", "$a0", "$a0", "", 0, "")>> \o PushWord("$a0")
    ELSE <<Ins("li", "$a0", "", "",
               chain[i].Children[1].Children[Maximum(ConstPlaces(chain[i], lex))]
                   .Children[2].Tok.Val, "")>> \o PushWord("$a0")

\* the table of every block of the chain
ChainSyms(chain) == [i \in 1..Len(chain) |-> loadSymbolTables(chain[i])]

IdentifierNode(lex) ==
    NewTerminalNode([NewToken(0) EXCEPT !.Tag = "Identifier", !.Lex = lex])

\* C3: in every block of a program that code was generated for, the lines generated
\* for a name used as an operand are the lines for the declaration of that name in
\* the innermost enclosing block that declares it, and the variable an assignment
\* stores to is the one that the innermost declaring block declares.
C3_InnermostDeclaration ==
    (pc \in {"generated", "loaded"} /\ ast # NilNode) =>
        \A chain \in Chains(ast.Children[1]) :
            /\ \A lex \in Operands(chain[Len(chain)].Children[4]) :
                  generateExpression(NewCodeGenerator, IdentifierNode(lex),
                                     ChainSyms(chain)).buf
                      = OperandLines(chain, lex, Maximum(Declaring(chain, lex)))
            /\ \A lex \in Targets(chain[Len(chain)].Children[4]) :
                  /\ VarPlaces(chain[Maximum(Declaring(chain, lex))], lex) # {}
                  /\ getValueFromClosestSymbolTable(Key("Integer", lex),
                                                    ChainSyms(chain)).n
                         = Len(chain) - Maximum(Declaring(chain, lex))

\* The layout of the generated text.  A procedure begins at a label followed by the
\* save of $ra and the jump to its body label; its nested procedures lie between that
\* jump and the body label; its body ends with the first jr behind the body label.
Entries(code) ==
    {k \in 1..(Len(code) - 3) :
        code[k].op = "label" /\ code[k + 1].op = "sw" /\ code[k + 1].d = "$ra"}

BodyIndex(code, e) == LabelIndex(code, code[e + 3].lab)

EndIndex(code, e) ==
    CHOOSE j \in BodyIndex(code, e)..Len(code) :
        /\ code[j].op = "jr"
        /\ \A x \in BodyIndex(code, e)..(j - 1) : code[x].op # "jr"

\* the procedure whose body line k belongs to, as the line of its label (0: main)
Owner(code, k) ==
    IF \E e \in Entries(code) : BodyIndex(code, e) < k /\ k <= EndIndex(code, e)
    THEN CHOOSE e \in Entries(code) : BodyIndex(code, e) < k /\ k <= EndIndex(code, e)
    ELSE 0

\* the procedures that procedure e is nested in
Enclosing(code, e) == {x \in Entries(code) : x < e /\ e < BodyIndex(code, x)}

\* the procedure that declares procedure e (0: main)
Parent(code, e) ==
    IF e = 0 \/ Enclosing(code, e) = {} THEN 0 ELSE Maximum(Enclosing(code, e))

RECURSIVE Ancestor(_, _, _)
Ancestor(code, e, k) == IF k = 0 THEN e ELSE Ancestor(code, Parent(code, e), k - 1)

\* line k is the last line of loadAddressOfPreviousRecord: the frame pointer the
\* chain of static links led to is in the register, the offset is taken off
AddrLine(code, k) == code[k].op = "subu" /\ code[k].d # "$sp"

\* how many times 4($fp) was followed before line k
RECURSIVE Hops(_, _)
Hops(code, k) ==
    IF /\ k > 1
       /\ code[k - 1].op = "lw" /\ code[k - 1].imm = 4
       /\ code[k - 1].d = code[k].d /\ code[k - 1].s = code[k].d
    THEN 1 + Hops(code, k - 1) ELSE 0

\* the calls in progress that are activations of procedure e
Activations(m, code, e) == {i \in 1..Len(m.calls) : m.calls[i].proc = code[e].lab}

\* base is the frame pointer of the most recent activation of block e, and a is a
\* slot of its frame: for main the slots of its mainVars variables from StackTop
\* down, for a procedure the slots from the dynamic link down to the saved $ra
FrameHolds(m, code, e, base, a, mainVars) ==
    IF e = 0
    THEN base = StackTop /\ a <= StackTop /\ a > StackTop - 4 * mainVars
    ELSE /\ Activations(m, code, e) # {}
         /\ base = m.calls[Maximum(Activations(m, code, e))].fp
         /\ a <= m.calls[Maximum(Activations(m, code, e))].fp + 8
         /\ a >= m.calls[Maximum(Activations(m, code, e))].low

\* C4: when a procedure is about to take the offset of a variable off the frame
\* pointer it reached by following 4($fp) k times, that pointer is the frame pointer
\* of the most recent activation of the block k levels up from the procedure, and
\* the address it computes is a slot of that frame.
C4_AddressInDeclaringFrame ==
    (/\ pc = "loaded" /\ cpu.status = "run"
     /\ cpu.ip \in 1..Len(gen.buf)
     /\ AddrLine(gen.buf, cpu.ip)
     /\ Owner(gen.buf, cpu.ip) # 0)
    => FrameHolds(cpu, gen.buf,
                  Ancestor(gen.buf, Owner(gen.buf, cpu.ip), Hops(gen.buf, cpu.ip)),
                  cpu.reg[gen.buf[cpu.ip].d],
                  cpu.reg[gen.buf[cpu.ip].d] - gen.buf[cpu.ip].imm,
                  Len(ast.Children[1].Children[2].Children))

(***************************************************************************)
(* SpecAnalyse: parser.New and Analyser.Analyse as the analyser's tests    *)
(* call them, over programs that declare the name a in main, in a          *)
(* procedure p, in a sibling q of p or in a procedure r nested in p, and   *)
(* use it in the body of p.  Every word is on a line of its own, so the    *)
(* line of a semantic error tells the token it was reported for.           *)
(***************************************************************************)
RECURSIVE SpellLines(_)
SpellLines(ws) ==
    IF ws = <<>> THEN <<>> ELSE Word(Head(ws)) \o <<"\n">> \o SpellLines(Tail(ws))

\* how a block declares a: not at all, as a constant, as a variable, as a procedure,
\* or as a constant and as a variable
DeclKinds == {"none", "const", "var", "proc", "both"}

ConstPart(k, v) ==
    IF k \in {"const", "both"} THEN <<"Const", "a", "Equals", v, "Semicolon">> ELSE <<>>

RECURSIVE CommaList(_)
CommaList(names) ==
    IF Len(names) = 1 THEN names
    ELSE <<Head(names), "Comma">> \o CommaList(Tail(names))

VarList(names) ==
    IF names = <<>> THEN <<>> ELSE <<"Var">> \o CommaList(names) \o <<"Semicolon">>

VarPart(k, others) == VarList((IF k \in {"var", "both"} THEN <<"a">> ELSE <<>>) \o others)

ProcPart(k) ==
    IF k = "proc"
    THEN <<"Procedure", "a", "Semicolon", "z", "Assignment", "1", "Semicolon">> ELSE <<>>

\* the declarations of a block that declares a as k says, with value v if a constant
DeclPart(k, v, others) == ConstPart(k, v) \o VarPart(k, others) \o ProcPart(k)

\* a procedure that only declares a as k says
DeclProc(name, k) ==
    IF k = "none" THEN <<>>
    ELSE <<"Procedure", name, "Semicolon">> \o DeclPart(k, "5", <<>>)
             \o <<"z", "Assignment", "1", "Semicolon">>

\* the statements that use a: as the target of an assignment, as the target of a call,
\* as an operand on the right of an assignment, on either side of a comparison, under
\* ODD and in a print statement
UseStatements ==
    { <<"a", "Assignment", "1">>,
      <<"Call", "a">>,
      <<"z", "Assignment", "1", "Plus", "a">>,
      <<"If", "a", "Equals", "1", "Then", "z", "Assignment", "1">>,
      <<"While", "1", "LessThan", "a", "Do", "z", "Assignment", "1">>,
      <<"If", "Odd", "a", "Then", "z", "Assignment", "1">>,
      <<"Exclamation", "a">> }

\* <main declares a as m> [PROCEDURE q; <s>; z := 1;] PROCEDURE p; <p declares a as k>
\* [PROCEDURE r; <n>; z := 1;] <use>; CALL p.
ProgUse(m, s, k, n, use) ==
    DeclPart(m, "1", <<"z", "w">>) \o DeclProc("q", s)
        \o <<"Procedure", "p", "Semicolon">> \o DeclPart(k, "3", <<>>) \o DeclProc("r", n)
        \o use \o <<"Semicolon", "Call", "p", "Period">>

ProgUses ==
    { ProgUse(m, "none", k, "none", use) : m \in DeclKinds, k \in DeclKinds, use \in UseStatements }
        \cup { ProgUse("none", s, "none", "none", use) :
                 s \in {"const", "var", "proc"}, use \in UseStatements }
        \cup { ProgUse("none", "none", "none", n, use) :
                 n \in {"const", "var", "proc"}, use \in UseStatements }

InitAnalyse ==
    /\ mode = "analyse"
    /\ ins \in ProgUses
    /\ src = SpellLines(ins)
    /\ lx = NewLexer
    /\ out = <<>>
    /\ parser = NoParser
    /\ ast = NilNode
    /\ pc = "start"
    /\ anl = NoAnalysis
    /\ gen = NewCodeGenerator
    /\ cpu = NoCpu

\* a := analyser.New(p); a.Analyse(): a fault ends the run, nothing is returned
AnalyseStep ==
    /\ mode = "analyse"
    /\ pc = "new"
    /\ anl' = Analyse(ScanCalls(src, NewLexer), parser)
    /\ parser' = anl'.p
    /\ lx' = parser'.lex
    /\ ast' = anl'.n
    /\ pc' = IF anl'.fault THEN "panic" ELSE "analysed"
    /\ UNCHANGED <<src, ins, out, mode, gen, cpu>>

NextAnalyse == NewParserStep \/ AnalyseStep

SpecAnalyse == InitAnalyse /\ [][NextAnalyse]_vars

\* the tree that Parse returns for the input
ParsedTree == Parse(ScanCalls(src, NewLexer), NewParser(ScanCalls(src, NewLexer), NewLexer)).n

\* where a block declares a name as a procedure
ProcPlaces(bloc, lex) ==
    {i \in 1..Len(bloc.Children[3].Children) :
        bloc.Children[3].Children[i].Children[1].Tok.Lex = lex}

\* the blocks of the chain that declare the name, as whatever
AnyDeclaring(chain, lex) ==
    {i \in 1..Len(chain) :
        \/ ConstPlaces(chain[i], lex) # {}
        \/ VarPlaces(chain[i], lex) # {}
        \/ ProcPlaces(chain[i], lex) # {}}

\* the identifier tokens of the calls of a statement
RECURSIVE CallTargets(_)
CallTargets(node) ==
    IF node.Tag = "Call" THEN {node.Children[1].Tok}
    ELSE IF node.Tag = "Begin"
    THEN UNION { CallTargets(node.Children[i]) : i \in 1..Len(node.Children) }
    ELSE IF node.Tag \in {"IfThen", "WhileDo"} THEN CallTargets(node.Children[2])
    ELSE {}

\* C11: in every program that Analyse accepts, the name on the left of every
\* assignment is declared in the block of the assignment or in an enclosing block,
\* and the closest block that declares it declares it as a variable (so a program
\* that assigns to a name whose closest declaration is a constant or a procedure is
\* not accepted).
C11_AssignmentTargetIsVar ==
    (mode = "analyse" /\ pc = "analysed" /\ ast # NilNode) =>
        \A chain \in Chains(ast.Children[1]) :
            \A lex \in Targets(chain[Len(chain)].Children[4]) :
                /\ AnyDeclaring(chain, lex) # {}
                /\ VarPlaces(chain[Maximum(AnyDeclaring(chain, lex))], lex) # {}

\* the lines of the semantic errors
ErrorLines == {anl.err[e] : e \in 1..Len(anl.err)}

\* C12: when Analyse returns, for every CALL of the program whose name no block of
\* the scope chain (the block of the call and the blocks that enclose it) declares as
\* a procedure, Analyse returned nil and reported a semantic error at the line of
\* that name; so in every accepted program every CALL names a procedure declared in
\* the current or an enclosing block.
C12_CallTargetIsProcedure ==
    (mode = "analyse" /\ pc = "analysed") =>
        \A chain \in Chains(ParsedTree.Children[1]) :
            \A tok \in CallTargets(chain[Len(chain)].Children[4]) :
                (\A i \in 1..Len(chain) : ProcPlaces(chain[i], tok.Lex) = {})
                    => (ast = NilNode /\ tok.Ln \in ErrorLines)

\* Analyse returned nil, with one error, for the program whose procedure p calls a
\* name that main declares as a variable
C12_CallOfVariableRejected ==
    /\ mode = "analyse"
    /\ pc = "analysed"
    /\ ins = ProgUse("var", "none", "none", "none", <<"Call", "a">>)
    /\ ast = NilNode
    /\ Len(anl.err) = 1

(***************************************************************************)
(* Further properties of Spec                                              *)
(***************************************************************************)
\* the lines generated for the name used as an operand in the last block of the chain
IdentifierLines(chain, lex) ==
    generateExpression(NewCodeGenerator, IdentifierNode(lex), ChainSyms(chain)).buf

\* the value of the constant that the block declares under the name
ConstValueIn(bloc, lex) ==
    bloc.Children[1].Children[Maximum(ConstPlaces(bloc, lex))].Children[2].Tok.Val

\* C13: in every program that code was generated for, for every name used as an
\* operand whose closest declaration is a constant, the lines generated for the use
\* begin with the load-immediate of the declared value of that constant and hold no
\* lw, so nothing is read from an activation record.
C13_ConstantIsImmediate ==
    (mode = "pipe" /\ pc \in {"generated", "loaded"} /\ ast # NilNode) =>
        \A chain \in Chains(ast.Children[1]) :
            \A lex \in Operands(chain[Len(chain)].Children[4]) :
                ConstPlaces(chain[Maximum(Declaring(chain, lex))], lex) # {} =>
                    /\ Head(IdentifierLines(chain, lex))
                           = Ins("li", "$a0", "", "",
                                 ConstValueIn(chain[Maximum(Declaring(chain, lex))], lex), "")
                    /\ \A k \in 1..Len(IdentifierLines(chain, lex)) :
                           IdentifierLines(chain, lex)[k].op # "lw"

\* the value of an expression whose operands are all numbers
RECURSIVE Value(_)
Value(node) ==
    IF node.Tag = "Terminal" THEN node.Tok.Val
    ELSE CASE node.Op = "Plus" -> Value(node.Children[1]) + Value(node.Children[2])
           [] node.Op = "Minus" -> Value(node.Children[1]) - Value(node.Children[2])
           [] node.Op = "Times" -> Value(node.Children[1]) * Value(node.Children[2])
           [] node.Op = "Divide" -> Quotient(Value(node.Children[1]), Value(node.Children[2]))

\* what a comparison says of two values
Compare(op, a, b) ==
    CASE op = "Equals" -> a = b
      [] op = "NotEquals" -> a # b
      [] op = "LessThan" -> a < b
      [] op = "GreaterThan" -> a > b
      [] op = "LessThanEqualTo" -> a <= b
      [] op = "GreaterThanEqualTo" -> a >= b

\* the statement of main
MainStatement == ast.Children[1].Children[4]

\* the text is loaded for a program whose main statement is IF l op r THEN z := 1
\* with op one of ops
RunsCond(ops) ==
    /\ mode = "pipe" /\ pc = "loaded"
    /\ MainStatement.Tag = "IfThen"
    /\ MainStatement.Children[1].Tag = "Cond"
    /\ MainStatement.Children[1].Op \in ops

\* whether the comparison of the main statement holds of the values of its operands
CondHolds ==
    Compare(MainStatement.Children[1].Op,
            Value(MainStatement.Children[1].Children[1]),
            Value(MainStatement.Children[1].Children[2]))

\* the line of the true label of the main statement; the line before it is the jump
\* to the done label, which only a branch that falls through reaches
TrueLine == LabelIndex(gen.buf, "if0")

\* the run of IF l op r THEN z := 1 for op in ops: it does not fault and ends within
\* as many steps as the text has lines; it is at the true label only when the
\* comparison holds and at the line after the branch only when it does not; and when
\* it has ended, z is 1 exactly when the comparison holds
CondCorrect(ops) ==
    RunsCond(ops) =>
        /\ cpu.status # "fault"
        /\ cpu.steps <= Len(gen.buf)
        /\ (cpu.status = "run" /\ cpu.ip = TrueLine) => CondHolds
        /\ (cpu.status = "run" /\ cpu.ip = TrueLine - 1) => ~CondHolds
        /\ cpu.status = "exit" => ((Load(cpu, StackTop - 4) = 1) <=> CondHolds)

\* C15: for a condition e1 < e2 the generated lines jump to the true label exactly
\* when the value of e1 is less than the value of e2, and fall through otherwise.
C15_LessThanJumps == CondCorrect({"LessThan"})

\* the run of IF - 1 < 0 THEN z := 1 is at the true label
C15_LessThanTaken ==
    /\ RunsCond({"LessThan"})
    /\ ins = ProgCond("LessThan", <<"Minus", "1">>, <<"0">>)
    /\ cpu.status = "run"
    /\ cpu.ip = TrueLine

\* C16: for a condition e1 > e2 the generated lines jump to the true label exactly
\* when the value of e1 is greater than the value of e2, and fall through otherwise.
C16_GreaterThanJumps == CondCorrect({"GreaterThan"})

\* C17: for a condition e1 op e2 with op one of =, #, <=, >= the generated lines jump
\* to the true label exactly when the values satisfy e1 op e2, and fall through
\* otherwise.
C17_OtherComparisonsJump ==
    CondCorrect({"Equals", "NotEquals", "LessThanEqualTo", "GreaterThanEqualTo"})

\* the run of IF 2 <= 2 THEN z := 1 is at the true label, and the run of
\* IF 2 # 2 THEN z := 1 has ended with z still 0
C17_EqualOperands ==
    /\ RunsCond({"LessThanEqualTo", "NotEquals"})
    /\ \/ /\ ins = ProgCond("LessThanEqualTo", <<"2">>, <<"2">>)
          /\ cpu.status = "run" /\ cpu.ip = TrueLine
       \/ /\ ins = ProgCond("NotEquals", <<"2">>, <<"2">>)
          /\ cpu.status = "exit" /\ Load(cpu, StackTop - 4) = 0

\* every operand of the expression is a number
RECURSIVE Literal(_)
Literal(node) ==
    IF node.Tag = "Terminal" THEN node.Tok.Tag = "Integer"
    ELSE /\ node.Tag = "Math"
         /\ Len(node.Children) = 2
         /\ Literal(node.Children[1])
         /\ Literal(node.Children[2])

\* what an arithmetic operator makes of two values
Apply(op, a, b) ==
    CASE op = "Plus" -> a + b
      [] op = "Minus" -> a - b
      [] op = "Times" -> a * b
      [] op = "Divide" -> Quotient(a, b)

\* the operator of the Math node whose result line k pushes
MathOpAt(code, k) ==
    IF code[k - 1].op = "add" THEN "Plus"
    ELSE IF code[k - 1].op = "sub" THEN "Minus"
    ELSE IF code[k - 2].op = "mult" THEN "Times"
    ELSE "Divide"

\* the text is loaded for a program whose main statement is z := e with e made of
\* numbers only
RunsMath ==
    /\ mode = "pipe" /\ pc = "loaded"
    /\ MainStatement.Tag = "Assignment"
    /\ Literal(MainStatement.Children[2])

\* the machine is about to run line i of the text
AtLine(i) ==
    /\ mode = "pipe" /\ pc = "loaded" /\ cpu.status = "run"
    /\ cpu.ip \in 1..Len(gen.buf)
    /\ gen.buf[cpu.ip] = i

\* C18: whenever the lines of a Math node are about to push its result, the result
\* is (the value the left child pushed) op (the value the right child pushed), the
\* left one first; and for z := e with e made of numbers, brackets and operators the
\* run does not fault, the value popped for the store is the value of e with every
\* operator applied left operand first, and z holds it when the run has ended, so
\* that no pushed left value was overwritten while the right child was evaluated.
C18_MathLeftOpRight ==
    /\ AtLine(Ins("sw", "$t0", "$sp", "", 0, ""))
           => cpu.reg["$t0"] = Apply(MathOpAt(gen.buf, cpu.ip),
                                     Load(cpu, cpu.reg["$sp"]),
                                     Load(cpu, cpu.reg["$sp"] - 4))
    /\ RunsMath =>
           /\ cpu.status # "fault"
           /\ cpu.steps <= Len(gen.buf)
           /\ AtLine(Ins("sw", "$a0", "$t0", "", 0, ""))
                  => cpu.reg["$a0"] = Value(MainStatement.Children[2])
           /\ cpu.status = "exit"
                  => Load(cpu, StackTop - 4) = Value(MainStatement.Children[2])

\* the run of z := 7 - (5 - 3) is about to store 5
C18_NestedRightOperand ==
    /\ RunsMath
    /\ ins = ProgMath(<<"7", "Minus", "LeftParen", "5", "Minus", "3", "RightParen">>)
    /\ AtLine(Ins("sw", "$a0", "$t0", "", 0, ""))
    /\ cpu.reg["$a0"] = 5

(***************************************************************************)
(* Further properties of SpecAnalyse                                       *)
(***************************************************************************)
\* C14: for every program with a name used as an operand (on the right of an
\* assignment, in a comparison, under ODD or in a print statement) that no block of
\* the scope chain declares as a variable or as a constant, Analyse returns, and it
\* returns nil.
C14_UndeclaredOperandRejected ==
    (mode = "analyse" /\ pc \in {"analysed", "panic"}) =>
        \A chain \in Chains(ParsedTree.Children[1]) :
            \A lex \in Operands(chain[Len(chain)].Children[4]) :
                Declaring(chain, lex) = {} => (pc = "analysed" /\ ast = NilNode)

\* the identifier tokens of the variables a block declares
VarTokens(bloc) == {bloc.Children[2].Children[i].Tok : i \in 1..Len(bloc.Children[2].Children)}

\* C20: when Analyse returns, a semantic error is reported at a VAR declaration
\* exactly when the same block declares a constant of the same name; a constant of
\* that name in an enclosing block alone brings no error at the inner VAR.
C20_VarCollidesInOwnBlock ==
    (mode = "analyse" /\ pc = "analysed") =>
        \A chain \in Chains(ParsedTree.Children[1]) :
            \A tok \in VarTokens(chain[Len(chain)]) :
                (tok.Ln \in ErrorLines) <=> (ConstPlaces(chain[Len(chain)], tok.Lex) # {})

(***************************************************************************)
(* Further properties of SpecLex                                           *)
(***************************************************************************)
\* the call of Scan that returned out[i] found ":" as its first byte, and the byte
\* behind it is not "="
LoneColonAt(i) ==
    /\ out[i].start >= 1
    /\ src[out[i].start] = ":"
    /\ (out[i].start = Len(src) \/ src[out[i].start + 1] # "=")

\* C21: a ":" that is not directly followed by "=" makes Scan return UnexpectedChar,
\* and the call takes the ":" only: the byte behind it is neither dropped nor read
\* twice, so the next call lexes it as if the ":" were absent.
C21_LoneColon ==
    mode = "lex" =>
        \A i \in 1..Len(out) :
            LoneColonAt(i) =>
                /\ out[i].tok = UnexpectedChar
                /\ out[i].end = out[i].start

(***************************************************************************)
(* Properties of the frames of Spec                                        *)
(***************************************************************************)
\* line k loads the word of a variable whose address the line before computed
ReadLine(code, k) ==
    /\ k > 1
    /\ code[k].op = "lw" /\ code[k].imm = 0 /\ code[k].s = code[k].d
    /\ AddrLine(code, k - 1)

\* C22: a variable that no assignment stored to since the activation of its block
\* began (for main: since the program started) reads 0, whatever earlier activations
\* and the evaluation of expressions left on the stack.
C22_FreshVariableReadsZero ==
    (/\ pc = "loaded" /\ cpu.status = "run"
     /\ cpu.ip \in 1..Len(gen.buf)
     /\ ReadLine(gen.buf, cpu.ip)
     /\ cpu.reg[gen.buf[cpu.ip].s] \notin cpu.assigned)
    => Load(cpu, cpu.reg[gen.buf[cpu.ip].s]) = 0

\* the frame pointer of the caller of the call in progress: that of main, or that of
\* the activation that made the call
CallerFp(m) == IF Len(m.calls) = 1 THEN StackTop ELSE m.calls[Len(m.calls) - 1].fp

\* C23: when a procedure is about to execute its jr, $ra is the address of the line
\* behind the jal of the call in progress and $fp is the frame pointer of its caller.
C23_EpilogueRestores ==
    (/\ pc = "loaded" /\ cpu.status = "run"
     /\ cpu.ip \in 1..Len(gen.buf)
     /\ gen.buf[cpu.ip].op = "jr"
     /\ cpu.calls # <<>>)
    => /\ cpu.reg["$ra"] = CodeAddr(cpu.calls[Len(cpu.calls)].ret)
       /\ cpu.reg["$fp"] = CallerFp(cpu)

\* the line of the done label of the procedure that begins at line e
DoneOf(code, e) == LabelIndex(code, code[e].lab \o "_done")

\* the procedure whose code line k is a line of, as the line of its label (0: main):
\* the innermost procedure whose lines, from its label to its jr, include line k
ProcOf(code, k) ==
    IF \E e \in Entries(code) : e <= k /\ k <= DoneOf(code, e) + 4
    THEN Maximum({e \in Entries(code) : e <= k /\ k <= DoneOf(code, e) + 4})
    ELSE 0

\* C24: a step of the run goes to the first line of a procedure only by a jal that
\* names its label, and goes from the lines of one procedure (or of main) to the lines
\* of another only by such a jal or by a jr: no line of a procedure is reached by
\* falling through or by a jump from code outside it.
C24_NoFallThrough ==
    [][(/\ pc = "loaded" /\ cpu.status = "run" /\ cpu'.status = "run"
        /\ cpu.ip \in 1..Len(gen.buf) /\ cpu'.ip \in 1..Len(gen.buf)
        /\ \/ ProcOf(gen.buf, cpu'.ip) # ProcOf(gen.buf, cpu.ip)
           \/ (cpu'.ip \in Entries(gen.buf) /\ cpu'.ip # cpu.ip))
       => \/ /\ gen.buf[cpu.ip].op = "jal"
             /\ cpu'.ip \in Entries(gen.buf)
             /\ gen.buf[cpu'.ip].lab = gen.buf[cpu.ip].lab
          \/ /\ gen.buf[cpu.ip].op = "jr"
             /\ cpu'.ip \notin Entries(gen.buf)]_vars

\* p of the nested program was called and is at its body label, behind the code of
\* the procedure q nested in it, which has not been called
C24_NestedProcedureSkipped ==
    /\ ins = ProgNested
    /\ pc = "loaded" /\ cpu.status = "run"
    /\ Len(cpu.calls) = 1 /\ ~cpu.returned.valid
    /\ cpu.ip = LabelIndex(gen.buf, "procedure0_body")
    /\ ProcOf(gen.buf, cpu.ip - 1) = LabelIndex(gen.buf, "procedure1")

(***************************************************************************)
(* Properties of the loops of Spec.  A loop is known by the line h of its  *)
(* head label: the label with _do added to its name is its body label, and *)
(* the j before the body label names the label behind the loop             *)
(***************************************************************************)
Loops(code) ==
    {h \in 1..Len(code) :
        code[h].op = "label" /\ LabelIndices(code, code[h].lab \o "_do") # {}}

DoOf(code, h) == LabelIndex(code, code[h].lab \o "_do")

OutOf(code, h) == LabelIndex(code, code[DoOf(code, h) - 1].lab)

BranchOps == {"beq", "bne", "bgtz", "bgez"}

\* one step of the run from line a to line b keeps to the loop with head h
LoopStep(code, h, a, b) ==
    /\ b = DoOf(code, h) => (a = b - 2 /\ code[a].op \in BranchOps)
    /\ a = DoOf(code, h) - 2 => b \in {a + 1, a + 2}
    /\ b = OutOf(code, h) => a = DoOf(code, h) - 1
    /\ a = DoOf(code, h) - 1 => b = OutOf(code, h)
    /\ a = OutOf(code, h) - 1 => b = h
    /\ b = h => (a = h - 1 \/ a = OutOf(code, h) - 1 \/ code[a].op = "jr")
    /\ (a \in h..(DoOf(code, h) - 3) /\ b \notin h..(DoOf(code, h) - 2)) => FALSE
    /\ (/\ a \in DoOf(code, h)..(OutOf(code, h) - 2)
        /\ b \notin DoOf(code, h)..(OutOf(code, h) - 1)) => code[a].op = "jal"
    /\ (/\ b \in (DoOf(code, h) + 1)..(OutOf(code, h) - 1)
        /\ a \notin DoOf(code, h)..(OutOf(code, h) - 2)) => code[a].op = "jr"

\* C25: in the run of the code of every WHILE c DO s, the body label is reached only
\* by the branch of c when it is taken, the lines of s are left only for the jump back
\* to the head (but for calls and their returns), that jump leads to a new evaluation
\* of c, and the line behind the loop is reached only by the j that follows the branch
\* of c when it is not taken; no other line of the text jumps to a label of the loop.
C25_WhileControl ==
    [][(/\ pc = "loaded" /\ cpu.status = "run" /\ cpu'.status = "run"
        /\ cpu.ip \in 1..Len(gen.buf) /\ cpu'.ip \in 1..Len(gen.buf)
        /\ cpu'.steps # cpu.steps)
       => \A h \in Loops(gen.buf) : LoopStep(gen.buf, h, cpu.ip, cpu'.ip)]_vars

\* the outer loop of the nested program is at its body label for the second time:
\* the inner loop was left and the condition of the outer loop was taken again
C25_OuterBodyAgain ==
    /\ ins = ProgLoopNested
    /\ pc = "loaded" /\ cpu.status = "run"
    /\ Cardinality(Loops(gen.buf)) = 2
    /\ cpu.ip = DoOf(gen.buf, LabelIndex(gen.buf, "while0"))
    /\ Load(cpu, StackTop - 4) = 1
    /\ Load(cpu, StackTop - 8) = 1

(***************************************************************************)
(* Properties of the labels of Spec.  A procedure of the program is known  *)
(* by its path: <<i, j>> is the j-th procedure of the i-th procedure of    *)
(* main.  generateProcedure writes the procedures in the order of their    *)
(* declarations, and the body of a procedure behind its nested procedures  *)
(***************************************************************************)
RECURSIVE BlockAt(_, _)
BlockAt(root, path) ==
    IF path = <<>> THEN root
    ELSE BlockAt(root.Children[3].Children[Head(path)].Children[2], Tail(path))

\* the procedures declared in the block at path and in the blocks nested in it, in
\* the order of their declarations, from the i-th procedure of the block on
RECURSIVE PreOrder(_, _, _)
PreOrder(root, path, i) ==
    IF i > Len(BlockAt(root, path).Children[3].Children) THEN <<>>
    ELSE <<path \o <<i>>>> \o PreOrder(root, path \o <<i>>, 1) \o PreOrder(root, path, i + 1)

\* the names a statement calls, in the order of the statements
RECURSIVE CallSeq(_, _)
CallSeq(node, i) ==
    IF node.Tag = "Call" THEN <<node.Children[1].Tok.Lex>>
    ELSE IF node.Tag = "Begin"
    THEN (IF i > Len(node.Children) THEN <<>>
          ELSE CallSeq(node.Children[i], 1) \o CallSeq(node, i + 1))
    ELSE IF node.Tag \in {"IfThen", "WhileDo"} THEN CallSeq(node.Children[2], 1)
    ELSE <<>>

\* the blocks around the block at path, itself included, that declare a procedure lex,
\* as the lengths of their paths
ProcDeclaring(root, path, lex) ==
    {n \in 0..Len(path) : ProcPlaces(BlockAt(root, SubSeq(path, 1, n)), lex) # {}}

\* the procedure that the name lex means in the block at path: the one the closest
\* block around it declares
Resolve(root, path, lex) ==
    IF ProcDeclaring(root, path, lex) = {} THEN <<>>
    ELSE SubSeq(path, 1, Maximum(ProcDeclaring(root, path, lex)))
         \o <<Maximum(ProcPlaces(BlockAt(root, SubSeq(path, 1,
                                     Maximum(ProcDeclaring(root, path, lex)))), lex))>>

ResolveAll(root, path, names) == [k \in 1..Len(names) |-> Resolve(root, path, names[k])]

\* the procedures that the calls of the program mean, in the order in which the
\* statements of the blocks are written to the text
RECURSIVE CallsEmitted(_, _, _)
CallsEmitted(root, path, i) ==
    IF i > Len(BlockAt(root, path).Children[3].Children)
    THEN ResolveAll(root, path, CallSeq(BlockAt(root, path).Children[4], 1))
    ELSE CallsEmitted(root, path \o <<i>>, 1) \o CallsEmitted(root, path, i + 1)

\* the i-th smallest element of a set of numbers
Nth(S, i) == CHOOSE x \in S : Cardinality({y \in S : y < x}) = i - 1

Position(seq, x) == CHOOSE k \in 1..Len(seq) : seq[k] = x

JalLines(code) == {k \in 1..Len(code) : code[k].op = "jal"}

\* the i-th jal of the text names the label of the procedure that the i-th call means
JalResolves(code, root, i) ==
    /\ LabelIndices(code, code[Nth(JalLines(code), i)].lab) # {}
    /\ CallsEmitted(root, <<>>, 1)[i] # <<>>
    /\ LabelIndex(code, code[Nth(JalLines(code), i)].lab)
          = Nth(Entries(code), Position(PreOrder(root, <<>>, 1), CallsEmitted(root, <<>>, 1)[i]))

\* C26: in every generated text each label is defined once, every label that a j, a
\* branch or a jal names is defined, and the jal of every CALL names the label at
\* which the code of the called procedure begins, wherever the closest declaration of
\* that procedure lies (nested in the caller, the caller itself, a sibling declared
\* before or behind the caller).
C26_LabelsResolve ==
    (pc \in {"generated", "loaded"} /\ ast # NilNode) =>
        /\ \A k \in 1..Len(gen.buf) :
              gen.buf[k].op \in {"label", "j", "jal", "beq", "bne", "bgtz", "bgez"}
                  => Cardinality(LabelIndices(gen.buf, gen.buf[k].lab)) = 1
        /\ Cardinality(Entries(gen.buf)) = Len(PreOrder(ast.Children[1], <<>>, 1))
        /\ Cardinality(JalLines(gen.buf)) = Len(CallsEmitted(ast.Children[1], <<>>, 1))
        /\ \A i \in 1..Cardinality(JalLines(gen.buf)) :
              JalResolves(gen.buf, ast.Children[1], i)

\* the number of variables of the block of procedure e, as its epilogue takes them off
\* the stack (0: main, whose variables the tree gives)
NumVarsOf(code, e, mainVars) ==
    IF e = 0 THEN mainVars ELSE (code[DoneOf(code, e) + 2].imm - 12) \div 4

\* the words the frame setup stores the zeros of n variables in, for the frame pointer
\* base: the first at base itself
InitSlots(base, n) == {base - 4 * i : i \in 0..(n - 1)}

\* C27: whenever the offset 4*m of a variable is about to be taken off the frame
\* pointer of the block that declares it, the address that results is one of the words
\* that the frame setup of that block initialised for its variables (and so is none
\* of the slots of the links, of the return address or of the operand stack).
C27_VariableSlots ==
    (/\ pc = "loaded" /\ cpu.status = "run"
     /\ cpu.ip \in 1..Len(gen.buf)
     /\ AddrLine(gen.buf, cpu.ip))
    => (cpu.reg[gen.buf[cpu.ip].d] - gen.buf[cpu.ip].imm)
           \in InitSlots(cpu.reg[gen.buf[cpu.ip].d],
                         NumVarsOf(gen.buf,
                                   Ancestor(gen.buf, Owner(gen.buf, cpu.ip),
                                            Hops(gen.buf, cpu.ip)),
                                   Len(ast.Children[1].Children[2].Children)))

(***************************************************************************)
(* Further properties of SpecParse: the shape of the tree                  *)
(***************************************************************************)
StatementTags == {"Assignment", "Call", "Begin", "IfThen", "WhileDo", "Print"}

ExpressionTags == {"Math", "Terminal"}

\* the tags of the children that the data model prescribes for a node with a fixed
\* number of children
ChildTags(node) ==
    CASE node.Tag = "Program" -> <<{"Block"}>>
      [] node.Tag = "Block" -> <<{"Const"}, {"Var"}, {"ProcedureParent"}, StatementTags>>
      [] node.Tag = "Procedure" -> <<{"Terminal"}, {"Block"}>>
      [] node.Tag = "Assignment" -> <<{"Terminal"}, ExpressionTags>>
      [] node.Tag = "Call" -> <<{"Terminal"}>>
      [] node.Tag \in {"IfThen", "WhileDo"} -> <<{"Cond", "Odd"}, StatementTags>>
      [] node.Tag \in {"Cond", "Math"} -> <<ExpressionTags, ExpressionTags>>
      [] node.Tag \in {"Odd", "Print"} -> <<ExpressionTags>>
      [] OTHER -> <<>>

\* the tags of the children of a node with any number of children
ListTags(node) ==
    CASE node.Tag = "Const" -> {"Assignment"}
      [] node.Tag = "Var" -> {"Terminal"}
      [] node.Tag = "ProcedureParent" -> {"Procedure"}
      [] OTHER -> StatementTags

\* the node and every node below it has the shape of the data model; nil has none
RECURSIVE WellShaped(_)
WellShaped(node) ==
    /\ node.Tag # "nil"
    /\ IF node.Tag = "Terminal"
       THEN node.Children = <<>> /\ node.Tok.Tag \in {"Identifier", "Integer"}
       ELSE IF node.Tag \in {"Const", "Var", "ProcedureParent", "Begin"}
       THEN /\ node.Tag = "Begin" => Len(node.Children) >= 1
            /\ \A i \in 1..Len(node.Children) : node.Children[i].Tag \in ListTags(node)
       ELSE /\ Len(node.Children) = Len(ChildTags(node))
            /\ Len(node.Children) >= 1
            /\ \A i \in 1..Len(node.Children) : node.Children[i].Tag \in ChildTags(node)[i]
    /\ \A i \in 1..Len(node.Children) : WellShaped(node.Children[i])

\* C28: whenever Parse returns a Program, every node of the tree has the children the
\* data model prescribes, in number, kind and order, and no child is nil.
C28_TreeWellShaped ==
    (mode = "parse" /\ pc = "parsed" /\ ast.Tag # "nil") => WellShaped(ast)

(***************************************************************************)
(* Further properties of SpecParse: the tokens Parse takes.  The tree that *)
(* parseBlock builds is there whether or not errors were recorded, and it  *)
(* shows every turn of a loop (a child of a Const, Var, ProcedureParent or *)
(* Begin node, a Math node) and every block that was descended into        *)
(***************************************************************************)
\* what the calls of Scan return on src
Stream == ScanCalls(src, NewLexer)

\* the tree of the block that Parse builds on src
BlockTree == parseBlock(Stream, NewParser(Stream, NewLexer)).n

\* the tokens of the input: the results of Scan that are not EOF
InputTokens == Cardinality({k \in 1..Len(Stream) : Stream[k].tok # EOF})

\* the turns of loops that built the node and the nodes below it
RECURSIVE Iterations(_)
RECURSIVE IterationsFrom(_, _)
Iterations(node) ==
    (IF node.Tag \in {"Const", "Var", "ProcedureParent", "Begin"} THEN Len(node.Children)
     ELSE IF node.Tag = "Math" THEN 1 ELSE 0)
        + IterationsFrom(node, 1)

IterationsFrom(node, i) ==
    IF i > Len(node.Children) THEN 0
    ELSE Iterations(node.Children[i]) + IterationsFrom(node, i + 1)

\* the least number of times the parser moved to the next token while it built the
\* node: once for every accept that matched and once for every expect.  A turn of the
\* CONST loop has three expects, of the VAR loop one, of the PROCEDURE loop three and
\* a block, of the BEGIN loop a statement and one expect
RECURSIVE Consumed(_)
RECURSIVE ConsumedFrom(_, _, _)
Consumed(node) ==
    CASE node.Tag = "nil" -> 0
      [] node.Tag = "Terminal" -> IF node.Tok = ZeroTok THEN 0 ELSE 1
      [] node.Tag \in {"Math", "Cond"} ->
            Consumed(node.Children[1]) + 1 + Consumed(node.Children[2])
      [] node.Tag \in {"Odd", "Print"} -> 1 + Consumed(node.Children[1])
      [] node.Tag = "Assignment" -> 2 + Consumed(node.Children[2])
      [] node.Tag = "Call" -> 2
      [] node.Tag \in {"IfThen", "WhileDo"} ->
            2 + Consumed(node.Children[1]) + Consumed(node.Children[2])
      [] node.Tag = "Begin" -> 2 + ConsumedFrom(node, 1, 1)
      [] node.Tag = "Const" ->
            IF node.Children = <<>> THEN 0 ELSE 4 * Len(node.Children) + 1
      [] node.Tag = "Var" ->
            IF node.Children = <<>> THEN 0 ELSE 2 * Len(node.Children) + 1
      [] node.Tag = "ProcedureParent" -> ConsumedFrom(node, 1, 0)
      [] node.Tag = "Procedure" -> 4 + Consumed(node.Children[2])
      [] OTHER -> ConsumedFrom(node, 1, 0)

\* the sum over the children from the i-th on, with extra moves for each
ConsumedFrom(node, i, extra) ==
    IF i > Len(node.Children) THEN 0
    ELSE Consumed(node.Children[i]) + extra + ConsumedFrom(node, i + 1, extra)

\* a block parsed with nothing of a block at the lookahead
EmptyBlock ==
    NewBlockNode(NewNode("Const"), NewNode("Var"), NewNode("ProcedureParent"), NilNode)

UsesDeclared(chain) ==
    /\ \A lex \in Targets(chain[Len(chain)].Children[4]) :
          /\ AnyDeclaring(chain, lex) # {}
          /\ VarPlaces(chain[Maximum(AnyDeclaring(chain, lex))], lex) # {}
    /\ \A tok \in CallTargets(chain[Len(chain)].Children[4]) :
          \E i \in 1..Len(chain) : ProcPlaces(chain[i], tok.Lex) # {}
    /\ \A lex \in Operands(chain[Len(chain)].Children[4]) : Declaring(chain, lex) # {}

\* no variable of the last block of the chain has the name of a constant of the chain
NoCollision(chain) ==
    \A tok \in VarTokens(chain[Len(chain)]) :
        \A i \in 1..Len(chain) : ConstPlaces(chain[i], tok.Lex) = {}

\* C30: for every tree that Parse returns, Analyse returns, without a fault, that
\* tree or nil, whatever statements (print included) and conditions (ODD included)
\* the tree holds; and it returns the tree when every name used in it is declared
\* as it is used.
C30_AnalyseCompletes ==
    (mode = "analyse" /\ pc \in {"analysed", "panic"} /\ ParsedTree # NilNode) =>
        /\ pc = "analysed"
        /\ ast \in {ParsedTree, NilNode}
        /\ (\A chain \in Chains(ParsedTree.Children[1]) :
                UsesDeclared(chain) /\ NoCollision(chain)) => ast = ParsedTree

====
